---- MODULE Spec2Model ----
(***************************************************************************)
(* Streaming chat clients of MCPEval.                                      *)
(*                                                                         *)
(* Spec     one chat turn of OpenAIStreamingClient                         *)
(*          (src/src/clients/streaming-client.ts), driven either by        *)
(*          EinsteinDevModelClient.chat or by a caller that registers its  *)
(*          own callbacks.                                                 *)
(* SpecSSE  the decoders that read raw SSE text: einsteinLlmGateway in its *)
(*          two variants and OpenAIStreamingWebClient.parseSSEData.        *)
(* SpecRequest   the request body a chat call of either streaming client  *)
(*               sends.                                                    *)
(* SpecInstance  several chat calls on one OpenAIStreamingClient object.   *)
(* SpecPair      two EinsteinDevModelClient.chat calls in flight together. *)
(* SpecExpress   one LLMExpressModelClient.chat call                       *)
(*               (src/src/clients/chatcompletion-client.ts).               *)
(* SpecWeb       one processStream run of OpenAIStreamingWebClient         *)
(*               (src/src/streaming-client.ts) over the reads of a body.   *)
(* SpecEnhanced  one chatWithRetry or streamWithProgress call of           *)
(*               EnhancedStreamingClient (src/src/streaming-example.ts).   *)
(* SpecManager   ModelManager (src/src/config.ts) and the chat method of   *)
(*               AdvancedModelClient.                                      *)
(* SpecMcp       one getMCPTools call (src/src/mcp/mcp-tool-loader.ts).    *)
(* SpecAgent     one ToolDiscoveryAgent.discover call                      *)
(*               (src/src/openai-streaming-client.ts).                     *)
(* SpecCompletions  one OpenAIStreamingWebClient.chatCompletions call      *)
(*                  (src/src/openai-streaming-client.ts).                  *)
(***************************************************************************)
EXTENDS Naturals, Sequences, FiniteSets, TLC

(***************************************************************************)
(* Bounds of the model.                                                    *)
(***************************************************************************)
\* chunks the transport delivers in one stream
MaxChunks == 2
\* records in one raw SSE body
MaxRecords == 3

(***************************************************************************)
(* Values.                                                                 *)
(***************************************************************************)
\* JavaScript null, for the error slot
Null == "null"

\* z.enum(['user', 'assistant', 'system']) of ModelMessageSchema
Roles == {"user", "assistant", "system"}

\* Generation ids the backend may send.  "2" and "10" are canonical array
\* indices, which a JavaScript object enumerates before its other keys.
\* Ids that name a member of Object.prototype ("constructor", "toString"),
\* for which the in operator holds on an empty object, are not drawn.
Ids == {"g1", "2", "10"}

\* The numeric value of a key that is a canonical array index, 0 otherwise.
IndexValue(id) ==
    CASE id = "2" -> 2
      [] id = "10" -> 10
      [] OTHER -> 0

IsArrayIndex(id) == id \in {"2", "10"}

\* What the promise of a failing post, or a failing read, is rejected with.
TransportErrors == {"APIError401", "APIConnectionError"}
StreamErrors == {"StreamReadError"}

\* One element of generation_details.generations as the code reads it: the
\* three fields of ModelMessageSchema plus id, and whether the remaining
\* fields satisfy GenerationSchema.
Entry(id, role, content, shapeOk) ==
    [id |-> id, role |-> role, content |-> content, shapeOk |-> shapeOk]

ValidEntries ==
    {Entry(id, role, content, TRUE) :
        id \in Ids, role \in {"assistant", "user"}, content \in {"", "a", "b"}}

\* entries GenerationSchema rejects: a role outside the enum, a missing field
BadRoleEntry == Entry("g1", "tool", "a", TRUE)
BadShapeEntry == Entry("g1", "assistant", "a", FALSE)

\* batches of two: the same id twice, two ids in both orders, an empty
\* content before and after a filled one, a rejected entry before and after
\* an accepted one
BatchEntries ==
    {<<Entry("g1", "assistant", "a", TRUE), Entry("g1", "user", "b", TRUE)>>,
     <<Entry("g1", "assistant", "a", TRUE), Entry("g1", "assistant", "a", TRUE)>>,
     <<Entry("g1", "assistant", "a", TRUE), Entry("2", "user", "b", TRUE)>>,
     <<Entry("2", "user", "b", TRUE), Entry("g1", "assistant", "a", TRUE)>>,
     <<Entry("g1", "assistant", "", TRUE), Entry("g1", "assistant", "a", TRUE)>>,
     <<Entry("g1", "assistant", "a", TRUE), Entry("g1", "assistant", "", TRUE)>>,
     <<Entry("g1", "assistant", "a", TRUE), BadShapeEntry>>,
     <<BadShapeEntry, Entry("g1", "assistant", "a", TRUE)>>}

GenLists ==
    {<<e>> : e \in ValidEntries \cup {BadRoleEntry, BadShapeEntry}}
    \cup BatchEntries

\* A chunk as the transport hands it over, by the properties the code reads:
\*   ctype   typeof chunk ("null" for null)
\*   event   chunk.event, "absent" when the chunk has no such property
\*   dtype   typeof chunk.data ("null", "array" told apart; "absent")
\*   dstr    chunk.data when it is a string, data[0] when it is an array
\*   gdtype  data.generation_details: "object", "null" or "absent"
\*   gtype   generation_details.generations: "array", "number" or "absent"
\*   gens    the elements of generations when it is an array
Chunk(ctype, event, dtype, dstr, gdtype, gtype, gens) ==
    [ctype |-> ctype, event |-> event, dtype |-> dtype, dstr |-> dstr,
     gdtype |-> gdtype, gtype |-> gtype, gens |-> gens]

GenChunk(gens) == Chunk("object", "generation", "object", "", "object", "array", gens)
DoneChunk == Chunk("object", "generation", "string", "DONE", "absent", "absent", <<>>)
DoneTupleChunk == Chunk("object", "generation", "array", "DONE", "absent", "absent", <<>>)

OddChunks ==
    {DoneTupleChunk,
     \* a chunk that is a bare string, and a null chunk
     Chunk("string", "absent", "absent", "", "absent", "absent", <<>>),
     Chunk("null", "absent", "absent", "", "absent", "absent", <<>>),
     \* an object without event, and one with another event name
     Chunk("object", "absent", "object", "", "object", "array",
           <<Entry("g1", "assistant", "a", TRUE)>>),
     Chunk("object", "ping", "object", "", "object", "array",
           <<Entry("g1", "assistant", "a", TRUE)>>),
     \* event: generation with no data, a keep-alive string, null data
     Chunk("object", "generation", "absent", "", "absent", "absent", <<>>),
     Chunk("object", "generation", "string", "ping", "absent", "absent", <<>>),
     Chunk("object", "generation", "null", "", "absent", "absent", <<>>),
     \* data without generation_details, with null generation_details
     Chunk("object", "generation", "object", "", "absent", "absent", <<>>),
     Chunk("object", "generation", "object", "", "null", "absent", <<>>),
     \* generation_details without generations, with generations a number
     Chunk("object", "generation", "object", "", "object", "absent", <<>>),
     Chunk("object", "generation", "object", "", "object", "number", <<>>),
     \* an empty generations list
     GenChunk(<<>>)}

Chunks == {GenChunk(g) : g \in GenLists} \cup {DoneChunk} \cup OddChunks

\* Who drives the session: EinsteinDevModelClient.chat, a caller that passes
\* all five callbacks (testStreamingClient adds none that throws), and a
\* caller that passes no callback at all.
Callers == {"einstein", "observer", "bare"}

Listeners(c) ==
    CASE c = "einstein" -> {"generation", "content", "error"}
      [] c = "observer" -> {"generation", "content", "chunk", "error", "end"}
      [] OTHER -> {}

(***************************************************************************)
(* The state of one chat turn.                                             *)
(***************************************************************************)
VARIABLES
    caller,        \* who called OpenAIStreamingClient.chat
    pc,            \* "idle", "requesting", "streaming", "settled"
    received,      \* the chunks the transport has delivered, in order
    log,           \* the emit calls of the session, in order
    generations,   \* EinsteinDevModelClient.chat: own properties, in creation order
    fullResponse,  \* EinsteinDevModelClient.chat: fullResponse
    error,         \* EinsteinDevModelClient.chat: error
    inner,         \* promise of OpenAIStreamingClient.chat
    failure,       \* what failed in the session, Null when nothing did
    result         \* what EinsteinDevModelClient.chat returned

chatVars ==
    <<caller, pc, received, log, generations, fullResponse, error, inner,
      failure, result>>

(***************************************************************************)
(* The state of the SSE decoders.                                          *)
(***************************************************************************)
VARIABLES
    sseBody,    \* the records of the response body
    genOut,     \* doGenerate of src/src/clients/llm-gateways.ts
    testOut,    \* doGenerate of src/test/utils/llm-gateways.ts
    webOut      \* processStream of OpenAIStreamingWebClient

sseVars == <<sseBody, genOut, testOut, webOut>>

(***************************************************************************)
(* The state of the other parts, one variable each.                        *)
(***************************************************************************)
VARIABLES
    request,    \* the request a chat call hands to the transport
    instance,   \* one OpenAIStreamingClient object and the chat calls on it
    pair,       \* two EinsteinDevModelClient.chat calls in flight together
    express,    \* one LLMExpressModelClient.chat call
    web,        \* one processStream run of OpenAIStreamingWebClient
    enhanced,   \* one call on an EnhancedStreamingClient
    manager,    \* a ModelManager and the clients of an AdvancedModelClient
    mcp,        \* one getMCPTools call
    agent,      \* one ToolDiscoveryAgent.discover call
    completions \* one chatCompletions call

\* what the actions of one part leave alone
outsideChat == <<sseVars, request, instance, pair, express, web, enhanced, manager, mcp, agent, completions>>
outsideSSE == <<chatVars, request, instance, pair, express, web, enhanced, manager, mcp, agent, completions>>
outsideRequest == <<chatVars, sseVars, instance, pair, express, web, enhanced, manager, mcp, agent, completions>>
outsideInstance == <<chatVars, sseVars, request, pair, express, web, enhanced, manager, mcp, agent, completions>>
outsidePair == <<chatVars, sseVars, request, instance, express, web, enhanced, manager, mcp, agent, completions>>
outsideExpress == <<chatVars, sseVars, request, instance, pair, web, enhanced, manager, mcp, agent, completions>>
outsideWeb == <<chatVars, sseVars, request, instance, pair, express, enhanced, manager, mcp, agent, completions>>
outsideEnhanced == <<chatVars, sseVars, request, instance, pair, express, web, manager, mcp, agent, completions>>
outsideManager == <<chatVars, sseVars, request, instance, pair, express, web, enhanced, mcp, agent, completions>>
outsideMcp == <<chatVars, sseVars, request, instance, pair, express, web, enhanced, manager, agent, completions>>
outsideAgent == <<chatVars, sseVars, request, instance, pair, express, web, enhanced, manager, mcp, completions>>
outsideCompletions == <<chatVars, sseVars, request, instance, pair, express, web, enhanced, manager, mcp, agent>>

\* One emit call: the event name, the number of the chunk that caused it
\* (0: none), the position of the generation in that chunk (0: none) and the
\* error passed along (Null: none).
Note(name, k, i, err) == [name |-> name, k |-> k, i |-> i, err |-> err]

(***************************************************************************)
(* Event codec: the type guards and processGeneration.                     *)
(***************************************************************************)
\* "true", "false", or "throw": the in operator applied to null is a TypeError
IsEventResponse(chunk) ==
    IF chunk.ctype \in {"object", "null"}
       /\ chunk.ctype # "null"
       /\ chunk.event # "absent"
       /\ chunk.dtype # "absent"
       /\ chunk.event = "generation"
       /\ chunk.dtype \in {"object", "null", "array"}
    THEN IF chunk.dtype = "null" THEN "throw"
         ELSE IF chunk.dtype = "object" /\ chunk.gdtype # "absent" THEN "true"
         ELSE "false"
    ELSE "false"

IsDoneResponse(chunk) ==
    /\ chunk.ctype \in {"object", "null"}
    /\ chunk.ctype # "null"
    /\ chunk.event # "absent"
    /\ chunk.dtype # "absent"
    /\ chunk.event = "generation"
    /\ chunk.dtype = "string" /\ chunk.dstr = "DONE"

\* GenerationSchema.parse: TRUE when the entry is accepted (the parsed copy
\* carries the entry's fields), FALSE when it throws a ZodError
GenerationSchemaAccepts(generation) ==
    generation.role \in Roles /\ generation.shapeOk

\* a loop body that handles element i and leaves the rest of the list
GenLoopFirstOnly(gens, k, i) ==
    IF i > Len(gens) THEN [emits |-> <<>>, thrown |-> Null]
    ELSE IF ~GenerationSchemaAccepts(gens[i])
         THEN [emits |-> <<>>, thrown |-> "ZodError"]
         ELSE [emits |-> IF gens[i].content # ""
                         THEN <<Note("generation", k, i, Null),
                                Note("content", k, i, Null)>>
                         ELSE <<Note("generation", k, i, Null)>>,
               thrown |-> Null]

\* a loop that emits 'content' for every generation, empty content included
RECURSIVE GenLoopContentAlways(_, _, _)
GenLoopContentAlways(gens, k, i) ==
    IF i > Len(gens) THEN [emits |-> <<>>, thrown |-> Null]
    ELSE IF ~GenerationSchemaAccepts(gens[i])
         THEN [emits |-> <<>>, thrown |-> "ZodError"]
         ELSE LET rest == GenLoopContentAlways(gens, k, i + 1)
              IN  [emits |-> <<Note("generation", k, i, Null),
                               Note("content", k, i, Null)>> \o rest.emits,
                   thrown |-> rest.thrown]

\* The loop over generation_details.generations from element i on: the emit
\* calls made and the error thrown (Null: none), for chunk number k.
RECURSIVE GenLoop(_, _, _)
GenLoop(gens, k, i) ==
    IF i > Len(gens) THEN [emits |-> <<>>, thrown |-> Null]
    ELSE IF ~GenerationSchemaAccepts(gens[i])
         THEN [emits |-> <<>>, thrown |-> "ZodError"]
         ELSE LET rest == GenLoop(gens, k, i + 1)
                  here == IF gens[i].content # ""
                          THEN <<Note("generation", k, i, Null),
                                 Note("content", k, i, Null)>>
                          ELSE <<Note("generation", k, i, Null)>>
              IN  [emits |-> here \o rest.emits, thrown |-> rest.thrown]

\* processGeneration(chunk) for chunk number k.
ProcessGeneration(chunk, k) ==
    LET first == <<Note("chunk", k, 0, Null)>>
        isEvent == IsEventResponse(chunk)
    IN  IF isEvent = "throw" THEN [emits |-> first, thrown |-> "TypeError"]
        ELSE IF isEvent = "true"
        THEN IF chunk.gdtype = "null" THEN [emits |-> first, thrown |-> "TypeError"]
             ELSE IF chunk.gtype = "absent" THEN [emits |-> first, thrown |-> Null]
             ELSE IF chunk.gtype # "array" THEN [emits |-> first, thrown |-> "TypeError"]
             ELSE LET loop == GenLoop(chunk.gens, k, 1)
                  IN  [emits |-> first \o loop.emits, thrown |-> loop.thrown]
        ELSE IF IsDoneResponse(chunk)
        THEN [emits |-> first \o <<Note("end", k, 0, Null)>>, thrown |-> Null]
        ELSE [emits |-> first, thrown |-> Null]


(***************************************************************************)
(* EinsteinDevModelClient.chat: the callbacks and the returned value.      *)
(***************************************************************************)
\* position of the own property named id, 0 when there is none
KeyIndex(gens, id) ==
    IF \E j \in 1..Len(gens) : gens[j].id = id
    THEN CHOOSE j \in 1..Len(gens) : gens[j].id = id
    ELSE 0

\* a callback that keeps the latest content of an id instead of appending
OnGenerationReplace(gens, generation) ==
    LET j == KeyIndex(gens, generation.id)
    IN  IF j # 0
        THEN [gens EXCEPT ![j].content = generation.content]
        ELSE Append(gens, [id |-> generation.id, role |-> generation.role,
                           content |-> generation.content])

\* the onGeneration callback, lines 190-196
OnGeneration(gens, generation) ==
    LET j == KeyIndex(gens, generation.id)
    IN  IF j # 0
        THEN [gens EXCEPT ![j].content = @ \o generation.content]
        ELSE Append(gens, [id |-> generation.id, role |-> generation.role,
                           content |-> generation.content])

\* Own property order of an ordinary object: array-index keys in ascending
\* numeric order, then the other keys in creation order.
RECURSIVE IndexKeysAscending(_, _)
IndexKeysAscending(gens, left) ==
    IF left = {} THEN <<>>
    ELSE LET j == CHOOSE x \in left :
                    \A y \in left : IndexValue(gens[x].id) <= IndexValue(gens[y].id)
         IN  <<gens[j]>> \o IndexKeysAscending(gens, left \ {j})

ObjectValues(gens) ==
    IndexKeysAscending(gens, {j \in 1..Len(gens) : IsArrayIndex(gens[j].id)})
    \o SelectSeq(gens, LAMBDA g : ~IsArrayIndex(g.id))

ToMessage(generation) == [role |-> generation.role, content |-> generation.content]

RECURSIVE MapToMessage(_)
MapToMessage(gens) ==
    IF gens = <<>> THEN <<>>
    ELSE <<ToMessage(Head(gens))>> \o MapToMessage(Tail(gens))

NullMessages == [isNull |-> TRUE, list |-> <<>>]
Messages(list) == [isNull |-> FALSE, list |-> list]

\* a return statement that fills messages on the error path too
EinsteinReturnBoth(err, gens) ==
    [error |-> err, messages |-> Messages(MapToMessage(ObjectValues(gens)))]

\* lines 208-216: the Response built from error and generations
EinsteinReturn(err, gens) ==
    IF err # Null
    THEN [error |-> err, messages |-> NullMessages]
    ELSE [error |-> Null, messages |-> Messages(MapToMessage(ObjectValues(gens)))]

NoResult == [error |-> "none", messages |-> NullMessages]

\* The closure of EinsteinDevModelClient.chat after one emit call reached its
\* callbacks; chunks is the stream so far, which holds the payloads.
OnNote(cl, note, chunks) ==
    CASE note.name = "generation" ->
            [cl EXCEPT !.generations =
                OnGeneration(@, chunks[note.k].gens[note.i])]
      [] note.name = "content" ->
            [cl EXCEPT !.fullResponse = @ \o chunks[note.k].gens[note.i].content]
      [] note.name = "error" -> [cl EXCEPT !.error = note.err]
      [] OTHER -> cl

RECURSIVE OnNotes(_, _, _)
OnNotes(cl, notes, chunks) ==
    IF notes = <<>> THEN cl
    ELSE OnNotes(OnNote(cl, Head(notes), chunks), Tail(notes), chunks)

Closure == [generations |-> generations, fullResponse |-> fullResponse, error |-> error]

\* lines 184-186: the locals as they are declared
EmptyClosure == [generations |-> <<>>, fullResponse |-> "", error |-> Null]


(***************************************************************************)
(* OpenAIStreamingClient.chat, one action per stretch between two awaits.  *)
(***************************************************************************)
\* a loop exit that emits nothing
AfterLoopSilent == <<>>

\* line 136: the emit call that follows the for-await loop
AfterLoop == <<Note("end", 0, 0, Null)>>

\* a catch block that only logs, and one that also emits 'end'
CatchEmitsNothing(err) == <<>>
CatchEmitsErrorThenEnd(err) == <<Note("error", 0, 0, err), Note("end", 0, 0, Null)>>

\* a catch block that reports the failure and then a second error
CatchEmitsTwice(err) == <<Note("error", 0, 0, err), Note("error", 0, 0, "AbortError")>>

\* lines 137-140: the emit call of the catch block
CatchEmits(err) == <<Note("error", 0, 0, err)>>

\* EventEmitter.emit('error', err) throws err when no 'error' listener is
\* registered; the callbacks the callers pass do not throw.
EmitErrorThrows(c) == "error" \notin Listeners(c)

\* The callbacks of EinsteinDevModelClient.chat run on every emit call; the
\* other callers keep no state of their own.
AfterNotes(notes, chunks) ==
    IF caller = "einstein" THEN OnNotes(Closure, notes, chunks) ELSE Closure

\* The session goes on: the notes are emitted and chat awaits the next chunk.
Advance(chunks, notes) ==
    LET cl == AfterNotes(notes, chunks)
    IN  /\ received' = chunks
        /\ log' = log \o notes
        /\ generations' = cl.generations
        /\ fullResponse' = cl.fullResponse
        /\ error' = cl.error
        /\ UNCHANGED <<caller, pc, inner, failure, result>>
        /\ UNCHANGED outsideChat

\* chat leaves its try block, by the end of the loop (thrown = Null) or by
\* the catch block, and its promise settles; EinsteinDevModelClient.chat
\* then runs to its return statement without another await.
Finish(chunks, notes, thrown) ==
    LET caught == thrown # Null
        rejected == caught /\ EmitErrorThrows(caller)
        all == IF caught /\ ~rejected THEN notes \o CatchEmits(thrown) ELSE notes
        cl == AfterNotes(all, chunks)
        \* lines 204-206: an exception escaping client.chat is captured
        err == IF rejected THEN thrown ELSE cl.error
    IN  /\ received' = chunks
        /\ log' = log \o all
        /\ generations' = cl.generations
        /\ fullResponse' = cl.fullResponse
        /\ error' = IF caller = "einstein" THEN err ELSE cl.error
        /\ inner' = IF rejected THEN "rejected" ELSE "resolved"
        /\ failure' = thrown
        /\ result' = IF caller = "einstein"
                     THEN EinsteinReturn(err, cl.generations)
                     ELSE NoResult
        /\ pc' = "settled"
        /\ UNCHANGED caller
        /\ UNCHANGED outsideChat

\* chat is called: the callbacks are registered, the request is built and
\* post is awaited.
Chat(c) ==
    /\ pc = "idle"
    /\ caller' = c
    /\ pc' = "requesting"
    /\ UNCHANGED <<received, log, generations, fullResponse, error, inner,
                   failure, result>>
    /\ UNCHANGED outsideChat

\* post rejects: non-2xx status or network failure
PostFails(e) ==
    /\ pc = "requesting"
    /\ Finish(received, <<>>, e)

\* post resolves with the stream
PostOk ==
    /\ pc = "requesting"
    /\ pc' = "streaming"
    /\ UNCHANGED <<caller, received, log, generations, fullResponse, error,
                   inner, failure, result>>
    /\ UNCHANGED outsideChat

\* the stream yields a chunk: processGeneration runs on it
NextChunk(c) ==
    /\ pc = "streaming"
    /\ Len(received) < MaxChunks
    /\ LET chunks == Append(received, c)
           p == ProcessGeneration(c, Len(chunks))
       IN  IF p.thrown = Null
           THEN Advance(chunks, p.emits)
           ELSE Finish(chunks, p.emits, p.thrown)

\* the stream is exhausted
StreamEnd ==
    /\ pc = "streaming"
    /\ Finish(received, AfterLoop, Null)

\* reading the stream fails
StreamThrows(e) ==
    /\ pc = "streaming"
    /\ Finish(received, <<>>, e)

InitChat ==
    /\ caller = "none"
    /\ pc = "idle"
    /\ received = <<>>
    /\ log = <<>>
    /\ generations = <<>>
    /\ fullResponse = ""
    /\ error = Null
    /\ inner = "pending"
    /\ failure = Null
    /\ result = NoResult


(***************************************************************************)
(* Raw SSE text and the decoders that read it.                             *)
(***************************************************************************)
\* The text after "data: " by what JSON.parse and the decoders make of it:
\*   "generation"  an object whose generation_details.generations[0] has
\*                 the given content (and text, "" when it has none)
\*   "object"      an object without generation_details
\*   "null"        the JSON text null
\*   "done"        the token [DONE], which is not JSON
\*   "invalid"     any other text that is not JSON
Payload(kind, content, text) == [kind |-> kind, content |-> content, text |-> text]

Payloads ==
    {Payload("generation", c, "") : c \in {"", "a", "b"}}
    \cup {Payload("generation", "a", "t"), Payload("object", "", ""),
          Payload("null", "", ""), Payload("done", "", ""),
          Payload("invalid", "", "")}

\* One SSE record: an event: line, a data: line and a blank line.
SSERecords ==
    {[event |-> e, data |-> d] : e \in {"generation", "error"}, d \in Payloads}

EventLine(name) == [kind |-> "event", event |-> name, data |-> Payload("none", "", "")]
DataLine(d) == [kind |-> "data", event |-> "", data |-> d]
BlankLine == [kind |-> "blank", event |-> "", data |-> Payload("none", "", "")]

\* text.split('\n') on the body made of the records
RECURSIVE SplitLines(_)
SplitLines(body) ==
    IF body = <<>> THEN <<>>
    ELSE <<EventLine(Head(body).event), DataLine(Head(body).data), BlankLine>>
         \o SplitLines(Tail(body))

\* JSON.parse: TRUE when it returns, FALSE when it throws a SyntaxError
JsonParses(d) == d.kind \in {"generation", "object", "null"}

\* jsonData.generation_details?.generations?.[0]?.content of a parsed payload:
\* the content, "" for undefined, and a TypeError when jsonData is null
ContentThrows(d) == d.kind = "null"
ContentOf(d) == IF d.kind = "generation" THEN d.content ELSE ""

\* src/src/clients/llm-gateways.ts, lines 57-71: the text gathered from the
\* lines; every exception of the loop body is swallowed.
RECURSIVE GatherData(_)
GatherData(lines) ==
    IF lines = <<>> THEN ""
    ELSE LET line == Head(lines)
             got == IF line.kind = "data" /\ JsonParses(line.data)
                       /\ ~ContentThrows(line.data)
                    THEN ContentOf(line.data)
                    ELSE ""
         IN  got \o GatherData(Tail(lines))

DoGenerateText(body) == [raised |-> Null, text |-> GatherData(SplitLines(body))]

\* src/test/utils/llm-gateways.ts, lines 78-91: onEvent on one record; the
\* error it throws (Null: none) and the content it pushes.
OnEvent(rec) ==
    IF rec.event = "error" THEN [thrown |-> "EinsteinAPIError", push |-> ""]
    ELSE IF rec.event = "generation" /\ rec.data.kind # "done"
    THEN IF ~JsonParses(rec.data) THEN [thrown |-> "SyntaxError", push |-> ""]
         ELSE IF ContentThrows(rec.data) THEN [thrown |-> "TypeError", push |-> ""]
         ELSE [thrown |-> Null, push |-> ContentOf(rec.data)]
    ELSE [thrown |-> Null, push |-> ""]

\* getResponseText: the parser hands the records to onEvent one by one; an
\* exception leaves the read loop and rejects the promise.
\* a read loop without the finally block: an exception leaves the lock held
RECURSIVE GetResponseTextNoFinally(_, _)
GetResponseTextNoFinally(body, acc) ==
    IF body = <<>> THEN [raised |-> Null, text |-> acc, lock |-> "released"]
    ELSE LET r == OnEvent(Head(body))
         IN  IF r.thrown # Null THEN [raised |-> r.thrown, text |-> "", lock |-> "held"]
             ELSE GetResponseTextNoFinally(Tail(body), acc \o r.push)

\* lock: what became of the lock of the stream's reader (lines 104-112:
\* reader.releaseLock() in the finally block of the read loop)
RECURSIVE GetResponseText(_, _)
GetResponseText(body, acc) ==
    IF body = <<>> THEN [raised |-> Null, text |-> acc, lock |-> "released"]
    ELSE LET r == OnEvent(Head(body))
         IN  IF r.thrown # Null THEN [raised |-> r.thrown, text |-> "", lock |-> "released"]
             ELSE GetResponseText(Tail(body), acc \o r.push)

\* src/src/streaming-client.ts, lines 80-103: parseSSEData on a block of
\* lines: the chunk returned (null: isNull) and whether 'error' was emitted.
RECURSIVE LastOf(_, _, _)
LastOf(lines, kind, found) ==
    IF lines = <<>> THEN found
    ELSE LastOf(Tail(lines), kind, IF Head(lines).kind = kind THEN Head(lines) ELSE found)

ParseSSEData(lines) ==
    LET ev == LastOf(lines, "event", BlankLine)
        da == LastOf(lines, "data", BlankLine)
        both == ev.kind = "event" /\ ev.event # "" /\ da.kind = "data"
    IN  IF ~both THEN [isNull |-> TRUE, emitted |-> FALSE, event |-> "", data |-> da.data]
        ELSE IF JsonParses(da.data)
        THEN [isNull |-> FALSE, emitted |-> FALSE, event |-> ev.event, data |-> da.data]
        ELSE [isNull |-> TRUE, emitted |-> TRUE, event |-> "", data |-> da.data]

\* lines 178-194 of processStream: each line that is not blank goes to
\* parseSSEData on its own; the names of the emit calls and the content text.
RECURSIVE ProcessLines(_, _)
ProcessLines(lines, acc) ==
    IF lines = <<>> THEN [acc EXCEPT !.notes = Append(@, "end")]
    ELSE IF Head(lines).kind = "blank" THEN ProcessLines(Tail(lines), acc)
    ELSE LET chunk == ParseSSEData(<<Head(lines)>>)
             err == IF chunk.emitted THEN <<"error">> ELSE <<>>
         IN  IF chunk.isNull
             THEN ProcessLines(Tail(lines), [acc EXCEPT !.notes = @ \o err])
             ELSE IF chunk.data.kind = "null"
             \* chunk.data.generation_details of null: caught at line 196
             THEN [acc EXCEPT !.notes = @ \o <<"chunk", "error">>]
             ELSE IF chunk.data.kind = "generation" /\ chunk.data.text # ""
             THEN ProcessLines(Tail(lines),
                      [notes |-> acc.notes \o <<"chunk", "content">>,
                       text |-> acc.text \o chunk.data.text])
             ELSE ProcessLines(Tail(lines), [acc EXCEPT !.notes = Append(@, "chunk")])

ProcessStream(body) == ProcessLines(SplitLines(body), [notes |-> <<>>, text |-> ""])

Pending == [raised |-> "pending", text |-> ""]
PendingRead == [raised |-> "pending", text |-> "", lock |-> "none"]
PendingNotes == [notes |-> <<"pending">>, text |-> ""]

InitSSE ==
    /\ sseBody = <<>>
    /\ genOut = Pending
    /\ testOut = PendingRead
    /\ webOut = PendingNotes

NoneDecoded == genOut = Pending /\ testOut = PendingRead /\ webOut = PendingNotes

\* the backend writes one more record into the body
Receive(rec) ==
    /\ NoneDecoded
    /\ Len(sseBody) < MaxRecords
    /\ sseBody' = Append(sseBody, rec)
    /\ UNCHANGED <<genOut, testOut, webOut>>
    /\ UNCHANGED outsideSSE

DoGenerate ==
    /\ genOut = Pending
    /\ genOut' = DoGenerateText(sseBody)
    /\ UNCHANGED <<sseBody, testOut, webOut>>
    /\ UNCHANGED outsideSSE

DoGenerateTest ==
    /\ testOut = PendingRead
    /\ testOut' = GetResponseText(sseBody, "")
    /\ UNCHANGED <<sseBody, genOut, webOut>>
    /\ UNCHANGED outsideSSE

ProcessStreamWeb ==
    /\ webOut = PendingNotes
    /\ webOut' = ProcessStream(sseBody)
    /\ UNCHANGED <<sseBody, genOut, testOut>>
    /\ UNCHANGED outsideSSE

(***************************************************************************)
(* toolDiscoveryWorkflow() of src/src/eval/tool-discovery-workflow.ts.     *)
(***************************************************************************)
\* a workflow that turns the error of the response into an exception
WorkflowThrowsOnError(chat) ==
    IF chat.settled = "rejected" \/ chat.response.error # Null
    THEN [settled |-> "rejected", value |-> FALSE]
    ELSE [settled |-> "resolved", value |-> FALSE]

\* lines 7-13: the workflow awaits aiClient.chat, logs the response and
\* returns false; it has no try/catch, so a rejection of chat is its own
ToolDiscoveryWorkflow(chat) ==
    IF chat.settled = "rejected"
    THEN [settled |-> "rejected", value |-> FALSE]
    ELSE [settled |-> "resolved", value |-> FALSE]

\* the promise of EinsteinDevModelClient.chat once the call is over: every
\* path of lines 182-217 ends in a return statement
EinsteinChatPromise == [settled |-> "resolved", response |-> result]

(***************************************************************************)
(* The request bodies the chat methods build.                              *)
(***************************************************************************)
\* messages in one chat call
MaxMessages == 2

\* maxTokens = 2048 in the destructuring of the options
DefaultMaxTokens == 2048

\* An optional number: undefined, or a given value.
Undefined == [given |-> FALSE, value |-> 0]
Given(v) == [given |-> TRUE, value |-> v]
MaxTokenOptions == {Undefined} \cup {Given(v) : v \in {0, 1, 2048, 4096}}

ModelMessages ==
    {[role |-> "system", content |-> "s"], [role |-> "user", content |-> "u"],
     [role |-> "user", content |-> ""]}

MessageLists ==
    UNION {[1..n -> ModelMessages] : n \in 0..MaxMessages}

\* ModelConfiguration by the fields the request depends on; parameters is
\* "absent" or names the bag
ModelConfigurations ==
    {[model |-> m, maxTokens |-> t, parameters |-> ps] :
        m \in {"llmgateway__OpenAIGPT5", "xgen_stream"},
        t \in MaxTokenOptions,
        ps \in {"absent", "{}", "{command_source:Chat}"}}

Temperatures == {"undefined", "0.7"}

\* `maxTokens || 2048`: zero counts as not given
MaxTokensOrDefault(option) ==
    IF option.given /\ option.value # 0 THEN option.value ELSE DefaultMaxTokens

\* a default taken with || instead of the destructuring default
MaxTokensTruthy(option) ==
    IF option.given /\ option.value # 0 THEN option.value ELSE DefaultMaxTokens

\* the destructuring default: it applies to undefined only
MaxTokensDefault(option) ==
    IF option.given THEN option.value ELSE DefaultMaxTokens

\* a constructor that starts from an empty bag whatever the configuration
ConfiguredParametersEmpty(config) == "{}"

\* constructor of OpenAIStreamingClient, line 63
ConfiguredParameters(config) ==
    IF config.parameters = "absent" THEN "{}" ELSE config.parameters

\* What goes to the transport: the JSON body by its fields ("absent": the
\* body has no such field) and the stream flag of the transport call.
Body(model, messages, temperature, gsMaxTokens, gsParameters, maxTokens, stream) ==
    [model |-> model, messages |-> messages, temperature |-> temperature,
     gsMaxTokens |-> gsMaxTokens, gsParameters |-> gsParameters,
     maxTokens |-> maxTokens, stream |-> stream]

\* OpenAIStreamingClient.chat, lines 121-129, and post, lines 80-86: the
\* body is the request; stream: true is an option of the transport call.
StreamingClientBody(config, messages, maxTokens, temperature) ==
    Body(config.model, messages, temperature, MaxTokensDefault(maxTokens),
         ConfiguredParameters(config), Undefined, "absent")

\* OpenAIStreamingWebClient.chat, lines 215-241, then streamChatCompletion,
\* lines 120-129: chat always passes generation_settings, so they are taken
\* as they are.
WebClientBody(model, messages, maxTokens, temperature) ==
    LET budget == MaxTokensDefault(maxTokens)
    IN  Body(IF model = "undefined" THEN "llmgateway__OpenAIGPT5" ELSE model,
             messages, "absent", budget, "{}",
             Given(MaxTokensOrDefault(Given(budget))), "true")

NoRequest ==
    [client |-> "none", option |-> Undefined, config |-> "none",
     parameters |-> "absent", messages |-> <<>>, transportStream |-> FALSE,
     body |-> Body("", <<>>, "absent", 0, "", Undefined, "absent")]

InitRequest == request = NoRequest

\* EinsteinDevModelClient.chat(messages) with this.config = config
EinsteinChatRequest(config, messages) ==
    /\ request = NoRequest
    /\ request' =
          [client |-> "einstein", option |-> config.maxTokens, config |-> config.model,
           parameters |-> config.parameters,
           messages |-> messages, transportStream |-> TRUE,
           body |-> StreamingClientBody(config, messages, config.maxTokens, "undefined")]
    /\ UNCHANGED outsideRequest

\* OpenAIStreamingClient.chat(messages, {maxTokens, temperature})
StreamingChatRequest(config, messages, maxTokens, temperature) ==
    /\ request = NoRequest
    /\ request' =
          [client |-> "streaming", option |-> maxTokens, config |-> config.model,
           parameters |-> config.parameters,
           messages |-> messages, transportStream |-> TRUE,
           body |-> StreamingClientBody(config, messages, maxTokens, temperature)]
    /\ UNCHANGED outsideRequest

\* OpenAIStreamingWebClient.chat(messages, {model, maxTokens, temperature})
WebChatRequest(model, messages, maxTokens, temperature) ==
    /\ request = NoRequest
    /\ request' =
          [client |-> "web", option |-> maxTokens, config |-> model,
           parameters |-> "absent",
           messages |-> messages, transportStream |-> FALSE,
           body |-> WebClientBody(model, messages, maxTokens, temperature)]
    /\ UNCHANGED outsideRequest

(***************************************************************************)
(* Several chat calls on one OpenAIStreamingClient object.                 *)
(***************************************************************************)
\* chat calls on the object
MaxCalls == 2
\* content notifications of one call
MaxContents == 1

\* the callbacks a call passes, by the events they are registered for
CallbackSets == {{}, {"error"}, {"content", "error", "end"}}

\* lines 114-118: the order in which chat registers the callbacks
RegistrationOrder == <<"generation", "content", "chunk", "error", "end">>

\* the listeners call k adds to the emitter, in order
Registrations(k, callbacks) ==
    LET kept == SelectSeq(RegistrationOrder, LAMBDA name : name \in callbacks)
    IN  [j \in 1..Len(kept) |-> [call |-> k, name |-> kept[j]]]

\* emit(name) during call k: every listener registered for name runs,
\* whichever call registered it
Invoked(handlers, k, name) ==
    {[by |-> k, of |-> handlers[j].call, name |-> name] :
        j \in {x \in 1..Len(handlers) : handlers[x].name = name}}

HasListener(handlers, name) ==
    \E j \in 1..Len(handlers) : handlers[j].name = name

\* a chat that opens a stream on its first call only
StreamsAfterPostOnce(n) == IF n = 0 THEN 1 ELSE n

\* line 131: every chat call reaches post
StreamsAfterPost(n) == n + 1

InitInstance ==
    instance = [calls |-> <<>>, handlers |-> <<>>, streams |-> 0, invoked |-> {}]

\* chat(messages, callbacks) is called on the object: nothing in chat looks
\* at earlier calls; the callbacks are added and post is called.
InstanceChat(callbacks) ==
    /\ Len(instance.calls) < MaxCalls
    /\ LET k == Len(instance.calls) + 1
       IN  instance' =
              [instance EXCEPT
                 !.calls = Append(@, [callbacks |-> callbacks, pc |-> "requesting",
                                      contents |-> 0, outcome |-> "pending"]),
                 !.handlers = @ \o Registrations(k, callbacks),
                 !.streams = StreamsAfterPost(@)]
    /\ UNCHANGED outsideInstance

\* the catch block of call k: emit('error') throws without a listener
InstanceCatch(k) ==
    instance' =
        [instance EXCEPT
           !.calls[k].pc = "settled",
           !.calls[k].outcome =
               IF HasListener(instance.handlers, "error") THEN "resolved" ELSE "rejected",
           !.invoked = @ \cup Invoked(instance.handlers, k, "error")]

InstancePostFails(k) ==
    /\ k \in 1..Len(instance.calls)
    /\ instance.calls[k].pc = "requesting"
    /\ InstanceCatch(k)
    /\ UNCHANGED outsideInstance

InstancePostOk(k) ==
    /\ k \in 1..Len(instance.calls)
    /\ instance.calls[k].pc = "requesting"
    /\ instance' = [instance EXCEPT !.calls[k].pc = "streaming"]
    /\ UNCHANGED outsideInstance

\* a chunk of call k with one generation that has content
InstanceContent(k) ==
    /\ k \in 1..Len(instance.calls)
    /\ instance.calls[k].pc = "streaming"
    /\ instance.calls[k].contents < MaxContents
    /\ instance' =
          [instance EXCEPT
             !.calls[k].contents = @ + 1,
             !.invoked = @ \cup Invoked(instance.handlers, k, "content")]
    /\ UNCHANGED outsideInstance

\* the stream of call k is exhausted
InstanceEnd(k) ==
    /\ k \in 1..Len(instance.calls)
    /\ instance.calls[k].pc = "streaming"
    /\ instance' =
          [instance EXCEPT
             !.calls[k].pc = "settled",
             !.calls[k].outcome = "resolved",
             !.invoked = @ \cup Invoked(instance.handlers, k, "end")]
    /\ UNCHANGED outsideInstance

\* reading the stream of call k fails
InstanceStreamThrows(k) ==
    /\ k \in 1..Len(instance.calls)
    /\ instance.calls[k].pc = "streaming"
    /\ InstanceCatch(k)
    /\ UNCHANGED outsideInstance

(***************************************************************************)
(* Two EinsteinDevModelClient.chat calls on one client object.             *)
(***************************************************************************)
EinsteinCalls == {1, 2}

\* the chunks their streams deliver
PairChunks ==
    {GenChunk(<<Entry("g1", "assistant", "a", TRUE)>>),
     GenChunk(<<Entry("2", "user", "b", TRUE)>>),
     GenChunk(<<BadShapeEntry>>),
     DoneChunk}

\* lines 183-186: each call constructs its own OpenAIStreamingClient and
\* declares fullResponse, error and generations as locals
NewCall ==
    [pc |-> "idle", received |-> <<>>, closure |-> EmptyClosure,
     failure |-> Null, result |-> NoResult]

InitPair == pair = [calls |-> [k \in EinsteinCalls |-> NewCall], last |-> 0, mixed |-> FALSE]

\* accumulators kept in one place for all calls
ClosureOfFirst(calls, k) == calls[1].closure

\* the locals the callbacks of call k close over
ClosureOf(calls, k) == calls[k].closure

\* sessions that keep what they extract in one place: call k goes on from
\* what the call before it left
PairAdvanceShared(k, chunks, notes) ==
    pair' = [pair EXCEPT
               !.calls[k].received = chunks,
               !.calls[k].closure =
                   OnNotes(pair.calls[IF pair.last = 0 THEN k ELSE pair.last].closure,
                           notes, chunks),
               !.last = k,
               !.mixed = @ \/ (pair.calls[k].received # <<>> /\ pair.last # k)]

\* call k goes on after the emit calls notes
PairAdvance(k, chunks, notes) ==
    pair' = [pair EXCEPT
               !.calls[k].received = chunks,
               !.calls[k].closure = OnNotes(ClosureOf(pair.calls, k), notes, chunks),
               !.last = k,
               !.mixed = @ \/ (pair.calls[k].received # <<>> /\ pair.last # k)]

\* client.chat of call k settles and call k returns; onError is registered,
\* so the catch block emits and nothing is thrown to lines 204-206
PairFinish(k, chunks, notes, thrown) ==
    LET all == IF thrown # Null THEN notes \o CatchEmits(thrown) ELSE notes
        cl == OnNotes(ClosureOf(pair.calls, k), all, chunks)
    IN  pair' = [pair EXCEPT
                   !.calls[k].received = chunks,
                   !.calls[k].closure = cl,
                   !.calls[k].failure = thrown,
                   !.calls[k].result = EinsteinReturn(cl.error, cl.generations),
                   !.calls[k].pc = "settled"]

PairChat(k) ==
    /\ pair.calls[k].pc = "idle"
    /\ pair' = [pair EXCEPT !.calls[k].pc = "requesting"]
    /\ UNCHANGED outsidePair

PairPostFails(k, e) ==
    /\ pair.calls[k].pc = "requesting"
    /\ PairFinish(k, pair.calls[k].received, <<>>, e)
    /\ UNCHANGED outsidePair

PairPostOk(k) ==
    /\ pair.calls[k].pc = "requesting"
    /\ pair' = [pair EXCEPT !.calls[k].pc = "streaming"]
    /\ UNCHANGED outsidePair

PairNextChunk(k, c) ==
    /\ pair.calls[k].pc = "streaming"
    /\ Len(pair.calls[k].received) < MaxChunks
    /\ LET chunks == Append(pair.calls[k].received, c)
           p == ProcessGeneration(c, Len(chunks))
       IN  IF p.thrown = Null
           THEN PairAdvance(k, chunks, p.emits)
           ELSE PairFinish(k, chunks, p.emits, p.thrown)
    /\ UNCHANGED outsidePair

PairStreamEnd(k) ==
    /\ pair.calls[k].pc = "streaming"
    /\ PairFinish(k, pair.calls[k].received, AfterLoop, Null)
    /\ UNCHANGED outsidePair

PairStreamThrows(k, e) ==
    /\ pair.calls[k].pc = "streaming"
    /\ PairFinish(k, pair.calls[k].received, <<>>, e)
    /\ UNCHANGED outsidePair

(***************************************************************************)
(* LLMExpressModelClient.chat (src/src/clients/chatcompletion-client.ts).  *)
(***************************************************************************)
ExpressModels == {"gemini-2.5-flash", "gpt-4o"}

\* what fetch is rejected with when the request does not get through
FetchErrors == {"TypeError: fetch failed", "TimeoutError"}

\* status codes the gateway answers with; response.ok holds for 200..299
Statuses == {200, 201, 401, 500}
ResponseOk(status) == status \in 200..299

StatusText(status) ==
    CASE status = 200 -> "OK"
      [] status = 201 -> "Created"
      [] status = 401 -> "Unauthorized"
      [] OTHER -> "Internal Server Error"

\* The body of the response by what response.json() and the path
\* data.choices[0].message.content make of it:
\*   "content"         content is the string text
\*   "contentNull"     content is null
\*   "contentMissing"  message has no content
\*   "noMessage"       choices[0] has no message
\*   "emptyChoices"    choices is []
\*   "noChoices"       an object without choices
\*   "notJson"         not JSON: response.json() rejects
ResponseBody(kind, text) == [kind |-> kind, text |-> text]

ResponseBodies ==
    {ResponseBody("content", t) : t \in {"", "Paris"}}
    \cup {ResponseBody(k, "") :
            k \in {"contentNull", "contentMissing", "noMessage", "emptyChoices",
                   "noChoices", "notJson"}}

\* the value read at data.choices[0].message.content: a string, null or
\* undefined, or the TypeError of reading a property of undefined
ContentValue(body) ==
    CASE body.kind = "content" -> [thrown |-> Null, kind |-> "string", text |-> body.text]
      [] body.kind = "contentNull" -> [thrown |-> Null, kind |-> "null", text |-> ""]
      [] body.kind = "contentMissing" -> [thrown |-> Null, kind |-> "undefined", text |-> ""]
      [] body.kind = "notJson" -> [thrown |-> "SyntaxError", kind |-> "undefined", text |-> ""]
      [] OTHER -> [thrown |-> "TypeError", kind |-> "undefined", text |-> ""]

\* the messages field of the returned object
ExpressMessages(kind, text) == [kind |-> kind, text |-> text]

NoExpressResult == [error |-> "none", messages |-> ExpressMessages("null", "")]

InitExpress ==
    express = [pc |-> "idle", model |-> "", messages |-> <<>>, status |-> 0,
               body |-> ResponseBody("none", ""), outcome |-> "pending",
               thrown |-> Null, result |-> NoExpressResult]

\* chat(messages) on a client constructed for model: fetch is awaited
ExpressChat(model, messages) ==
    /\ express.pc = "idle"
    /\ express' = [express EXCEPT !.pc = "fetching", !.model = model,
                                  !.messages = messages]
    /\ UNCHANGED outsideExpress

\* fetch rejects: no try block surrounds it, chat rejects with the error
ExpressFetchRejects(e) ==
    /\ express.pc = "fetching"
    /\ express' = [express EXCEPT !.pc = "settled", !.outcome = "rejected",
                                  !.thrown = e]
    /\ UNCHANGED outsideExpress

\* fetch resolves with a response: lines 38-42
ExpressResponse(status, body) ==
    /\ express.pc = "fetching"
    /\ express' =
          IF ~ResponseOk(status)
          THEN [express EXCEPT
                  !.pc = "settled", !.status = status, !.body = body,
                  !.outcome = "resolved",
                  !.result = [error |-> "Failed to chat: " \o StatusText(status),
                              messages |-> ExpressMessages("null", "")]]
          ELSE [express EXCEPT !.pc = "json", !.status = status, !.body = body]
    /\ UNCHANGED outsideExpress

\* response.json() settles: lines 42-44
ExpressJson ==
    /\ express.pc = "json"
    /\ LET content == ContentValue(express.body)
       IN  express' =
              IF content.thrown # Null
              THEN [express EXCEPT !.pc = "settled", !.outcome = "rejected",
                                   !.thrown = content.thrown]
              ELSE [express EXCEPT
                      !.pc = "settled", !.outcome = "resolved",
                      !.result = [error |-> Null,
                                  messages |-> ExpressMessages(content.kind, content.text)]]
    /\ UNCHANGED outsideExpress

(***************************************************************************)
(* OpenAIStreamingWebClient.processStream over the reads of a body.        *)
(***************************************************************************)
\* characters in the body
MaxText == 4

\* The body as a sequence of characters: "e" stands for the prefix
\* 'event: ', "d" for the prefix 'data: ', "nl" for the newline character.
TextChars == {"e", "d", " ", "nl"}

Texts == UNION {[1..n -> TextChars] : n \in 0..MaxText}

\* text.split('\n'): the segments between the newline characters
RECURSIVE SplitNewline(_, _)
SplitNewline(chars, segment) ==
    IF chars = <<>> THEN <<segment>>
    ELSE IF Head(chars) = "nl"
         THEN <<segment>> \o SplitNewline(Tail(chars), <<>>)
         ELSE SplitNewline(Tail(chars), Append(segment, Head(chars)))

\* String.prototype.trim
RECURSIVE TrimStart(_)
TrimStart(chars) ==
    IF chars # <<>> /\ Head(chars) = " " THEN TrimStart(Tail(chars)) ELSE chars

RECURSIVE TrimEnd(_)
TrimEnd(chars) ==
    IF chars # <<>> /\ chars[Len(chars)] = " "
    THEN TrimEnd(SubSeq(chars, 1, Len(chars) - 1))
    ELSE chars

Trim(chars) == TrimEnd(TrimStart(chars))

\* parseSSEData on one line of characters: what lines 82-92 read from it
LineOf(chars) ==
    LET t == Trim(chars)
    IN  IF t = <<>> THEN BlankLine
        ELSE IF Head(t) = "e"
        THEN EventLine(IF Len(t) > 1 THEN "generation" ELSE "")
        ELSE IF Head(t) = "d" THEN DataLine(Payload("invalid", "", ""))
        ELSE [kind |-> "other", event |-> "", data |-> Payload("none", "", "")]

\* a read loop that forgets the incomplete line
KeptNothing(segments) == <<>>

\* line 176: lines.pop() || '', the incomplete line kept for the next read
Kept(segments) == segments[Len(segments)]

\* the complete lines of a read: all segments but the last
Complete(segments) == SubSeq(segments, 1, Len(segments) - 1)

\* lines 178-194 for the complete lines of one read: the lines handed to
\* parseSSEData, the names of the emit calls, and whether an exception left
\* the loop
RECURSIVE ProcessReadLines(_, _)
ProcessReadLines(lines, acc) ==
    IF lines = <<>> THEN acc
    ELSE IF Trim(Head(lines)) = <<>> THEN ProcessReadLines(Tail(lines), acc)
    ELSE LET chunk == ParseSSEData(<<LineOf(Head(lines))>>)
             err == IF chunk.emitted THEN <<"error">> ELSE <<>>
             seen == [acc EXCEPT !.handed = Append(@, Head(lines))]
         IN  IF chunk.isNull
             THEN ProcessReadLines(Tail(lines), [seen EXCEPT !.notes = @ \o err])
             ELSE IF chunk.data.kind = "null"
             THEN [seen EXCEPT !.notes = @ \o <<"chunk", "error">>, !.thrown = TRUE]
             ELSE IF chunk.data.kind = "generation" /\ chunk.data.text # ""
             THEN ProcessReadLines(Tail(lines),
                      [seen EXCEPT !.notes = @ \o <<"chunk", "content">>])
             ELSE ProcessReadLines(Tail(lines), [seen EXCEPT !.notes = Append(@, "chunk")])

InitWeb ==
    web = [pc |-> "idle", text |-> <<>>, pos |-> 0, cuts |-> <<>>, buffer |-> <<>>,
           handed |-> <<>>, notes |-> <<>>]

\* processStream is called on the stream of a response with this body
WebOpen(text) ==
    /\ web.pc = "idle"
    /\ web' = [web EXCEPT !.pc = "reading", !.text = text]
    /\ UNCHANGED outsideWeb

\* reader.read() resolves with the next n characters of the body
WebRead(n) ==
    /\ web.pc = "reading"
    /\ n \in 1..(Len(web.text) - web.pos)
    /\ LET value == SubSeq(web.text, web.pos + 1, web.pos + n)
           segments == SplitNewline(web.buffer \o value, <<>>)
           done == ProcessReadLines(Complete(segments),
                       [handed |-> web.handed, notes |-> web.notes, thrown |-> FALSE])
       IN  web' = [web EXCEPT
                     !.pos = @ + n,
                     !.cuts = Append(@, n),
                     !.buffer = Kept(segments),
                     !.handed = done.handed,
                     !.notes = done.notes,
                     !.pc = IF done.thrown THEN "failed" ELSE "reading"]
    /\ UNCHANGED outsideWeb

\* reader.read() resolves with done: lines 166-169
WebDone ==
    /\ web.pc = "reading"
    /\ web.pos = Len(web.text)
    /\ web' = [web EXCEPT !.pc = "done", !.notes = Append(@, "end")]
    /\ UNCHANGED outsideWeb

\* reader.read() rejects: the catch block of line 196
WebReadFails ==
    /\ web.pc = "reading"
    /\ web' = [web EXCEPT !.pc = "failed", !.notes = Append(@, "error")]
    /\ UNCHANGED outsideWeb

(***************************************************************************)
(* EnhancedStreamingClient: chatWithRetry and streamWithProgress over the  *)
(* chat method of OpenAIStreamingWebClient.                                *)
(***************************************************************************)
\* records in the body of one response
MaxFragments == 2

\* the constructor's defaults: config.maxRetries || 3, config.retryDelay || 1000
DefaultMaxRetries == 3
DefaultRetryDelay == 1000

OrDefault(option, default) ==
    IF option.given /\ option.value # 0 THEN option.value ELSE default

RetryConfigs ==
    [maxRetries : {Undefined, Given(1), Given(2)}, retryDelay : {Undefined, Given(500)}]

\* the records of a response: generations with and without text, and one
\* whose data is the JSON text null
FragmentRecords ==
    {[event |-> "generation", data |-> d] :
        d \in {Payload("generation", "a", "t"), Payload("generation", "b", ""),
               Payload("null", "", "")}}

FragmentBodies == UNION {[1..n -> FragmentRecords] : n \in 0..MaxFragments}

\* OpenAIStreamingWebClient.chat, lines 231-247: every failure ends in
\* this.emit('error', error) in a catch block, so the promise of chat rejects
\* only when that emit throws, which it does when no 'error' listener is
\* registered
ChatSettles(listening, failed) ==
    IF failed /\ ~listening THEN "rejected" ELSE "resolved"

\* chatWithRetry, lines 36-60, after the chat call of one attempt settled
AfterAttempt(st, settles, e) ==
    IF settles = "resolved"
    THEN [st EXCEPT !.pc = "settled", !.outcome = "returned"]
    ELSE IF st.attempt < st.maxRetries
    THEN [st EXCEPT !.lastError = e,
                    !.waits = Append(@, st.retryDelay),
                    !.retryDelay = @ * 2,
                    !.attempt = @ + 1,
                    !.pc = "posting"]
    ELSE [st EXCEPT !.lastError = e, !.pc = "settled", !.outcome = "threw"]

\* the emit calls of processStream before the read that ends the stream
Emitted(body) ==
    LET notes == ProcessStream(body).notes
    IN  IF notes # <<>> /\ notes[Len(notes)] = "end"
        THEN SubSeq(notes, 1, Len(notes) - 1)
        ELSE notes

\* the listeners the two methods register, applied to the emit calls of one
\* chat call: onError of chatWithRetry (lines 42-45) keeps the last error;
\* onContent, onError and onEnd of streamWithProgress (lines 81-108) add to
\* fullResponse, report progress and settle the promise, which keeps its
\* first settlement
Listened(st, notes, text, e) ==
    LET errs == Cardinality({i \in 1..Len(notes) : notes[i] = "error"})
        contents == Cardinality({i \in 1..Len(notes) : notes[i] = "content"})
        seen == [st EXCEPT !.notes = @ \o notes,
                           !.errors = @ \o [i \in 1..errs |-> e]]
        first == IF notes = <<>> THEN "none"
                 ELSE IF \E i \in 1..Len(notes) : notes[i] \in {"error", "end"}
                 THEN notes[CHOOSE i \in 1..Len(notes) :
                              /\ notes[i] \in {"error", "end"}
                              /\ \A j \in 1..(i - 1) : notes[j] \notin {"error", "end"}]
                 ELSE "none"
    IN  IF st.op = "retry"
        THEN [seen EXCEPT !.lastError = IF errs > 0 THEN e ELSE @]
        ELSE LET told == [seen EXCEPT
                            !.value = @ \o text,
                            !.progress = @ \o [i \in 1..contents |-> Len(st.progress) + i]]
             IN  IF st.outcome # "pending" \/ first = "none" THEN told
                 ELSE IF first = "end"
                 THEN [told EXCEPT !.outcome = "resolved"]
                 ELSE [told EXCEPT !.outcome = "rejected", !.reason = e]

InitEnhanced ==
    enhanced = [op |-> "none", pc |-> "idle", maxRetries |-> 0, retryDelay |-> 0,
                attempt |-> 0, waits |-> <<>>, lastError |-> Null, errors |-> <<>>,
                body |-> <<>>, notes |-> <<>>, outcome |-> "pending", value |-> "",
                progress |-> <<>>, reason |-> Null]

\* new EnhancedStreamingClient(config).chatWithRetry(messages): lines 17-19, 34-36
ChatWithRetry(config) ==
    /\ enhanced.pc = "idle"
    /\ enhanced' = [enhanced EXCEPT
                      !.op = "retry", !.pc = "posting", !.attempt = 1,
                      !.maxRetries = OrDefault(config.maxRetries, DefaultMaxRetries),
                      !.retryDelay = OrDefault(config.retryDelay, DefaultRetryDelay)]
    /\ UNCHANGED outsideEnhanced

\* new EnhancedStreamingClient(config).streamWithProgress(messages): lines 73-79
StreamWithProgress(config) ==
    /\ enhanced.pc = "idle"
    /\ enhanced' = [enhanced EXCEPT
                      !.op = "progress", !.pc = "posting", !.attempt = 1,
                      !.maxRetries = OrDefault(config.maxRetries, DefaultMaxRetries),
                      !.retryDelay = OrDefault(config.retryDelay, DefaultRetryDelay)]
    /\ UNCHANGED outsideEnhanced

\* what follows the end of one chat call: chatWithRetry goes on with lines
\* 47-60, streamWithProgress has nothing left to do
ChatOver(st, failed, e) ==
    IF st.op = "retry"
    THEN AfterAttempt(st, ChatSettles(TRUE, failed), e)
    ELSE [st EXCEPT !.pc = "settled"]

\* streamChatCompletion fails (fetch rejects, HTTP status, no body): it emits
\* 'error' and rethrows (lines 148-151), and the catch block of chat emits
\* 'error' again (lines 245-247)
EnhancedPostFails(e) ==
    /\ enhanced.pc = "posting"
    /\ enhanced' = ChatOver(Listened(enhanced, <<"error", "error">>, "", e), TRUE, e)
    /\ UNCHANGED outsideEnhanced

\* streamChatCompletion returns the stream of a response with this body
EnhancedPostOk(body) ==
    /\ enhanced.pc = "posting"
    /\ enhanced' = [enhanced EXCEPT !.pc = "streaming", !.body = body]
    /\ UNCHANGED outsideEnhanced

\* processStream reads the body to its end
EnhancedStreamEnds ==
    /\ enhanced.pc = "streaming"
    /\ LET out == ProcessStream(enhanced.body)
           failed == out.notes[Len(out.notes)] # "end"
       IN  enhanced' = ChatOver(Listened(enhanced, out.notes, out.text, "TypeError"),
                                failed, "TypeError")
    /\ UNCHANGED outsideEnhanced

\* reader.read() rejects after n records of the body
EnhancedReadFails(n, e) ==
    /\ enhanced.pc = "streaming"
    /\ n \in 0..Len(enhanced.body)
    /\ LET read == SubSeq(enhanced.body, 1, n)
           out == ProcessStream(read)
       IN  enhanced' = ChatOver(Listened([enhanced EXCEPT !.body = read],
                                         Append(Emitted(read), "error"), out.text, e),
                                TRUE, e)
    /\ UNCHANGED outsideEnhanced

(***************************************************************************)
(* ModelManager and AdvancedModelClient.                                   *)
(***************************************************************************)
\* switchModel / switchEndpoint / chat calls on one object
MaxSwitches == 2

\* the keys of API_ENDPOINTS and MODEL_CONFIGS
EndpointKeys == {"openai", "salesforce", "anthropic"}
ModelKeys ==
    {"gpt-3.5-turbo", "gpt-4", "gpt-4o", "xgen_stream", "sf_gpt4o", "sf_claude",
     "claude-3-5-sonnet"}

\* both tables are object literals: table[key] also finds the members every
\* object inherits from Object.prototype, such as constructor
InheritedKeys == {"constructor"}

\* the names passed to switchModel and switchEndpoint: keys of the tables, a
\* model id that is not a key, a name that is in neither table, an inherited name
SwitchNames ==
    ModelKeys \cup EndpointKeys \cup {"llmgateway__OpenAIGPT4o", "unknown"}
    \cup InheritedKeys

\* if (TABLE[key]): the test of lines 130 and 142
Truthy(keys, key) == key \in keys \cup InheritedKeys

\* MODEL_CONFIGS[key].provider
ProviderOf(key) ==
    IF key \in {"gpt-3.5-turbo", "gpt-4", "gpt-4o"} THEN "openai"
    ELSE IF key \in {"xgen_stream", "sf_gpt4o", "sf_claude"} THEN "salesforce"
    ELSE IF key = "claude-3-5-sonnet" THEN "anthropic"
    ELSE "undefined"

\* API_ENDPOINTS[key].name.toLowerCase(); a key that is not in the table has
\* no endpoint object, and reading its name throws
LowerName(key) ==
    IF key = "openai" THEN "openai"
    ELSE IF key = "salesforce" THEN "salesforce einstein"
    ELSE IF key = "anthropic" THEN "anthropic claude"
    ELSE IF key \in InheritedKeys THEN "object"
    ELSE "TypeError"

\* process.env as the constructors read it ("" stands for a variable not set)
Environments ==
    [DEFAULT_ENDPOINT : {"", "salesforce", "azure"},
     DEFAULT_MODEL : {"", "gpt-4o", "my-model"},
     OPENAI_API_KEY : {"", "key"},
     ANTHROPIC_API_KEY : {"", "key"}]

\* initializeClients, lines 13-55: the keys of baseClients
InitializedClients(env) ==
    (IF env.OPENAI_API_KEY # "" THEN {"openai"} ELSE {})
    \cup {"salesforce"}
    \cup (IF env.ANTHROPIC_API_KEY # "" THEN {"anthropic"} ELSE {})

NoOp == [kind |-> "none", arg |-> "", returned |-> FALSE]

InitManager ==
    manager = [pc |-> "none", endpoint |-> "", model |-> "", clients |-> {},
               before |-> [endpoint |-> "", model |-> ""], op |-> NoOp,
               steps |-> 0, chat |-> "none",
               start |-> [endpoint |-> "", model |-> ""]]

\* new AdvancedModelClient(): the ModelManager constructor (config.ts lines
\* 116-125) and initializeClients
NewAdvancedModelClient(env) ==
    /\ manager.pc = "none"
    /\ manager' = [manager EXCEPT
                     !.pc = "ready",
                     !.endpoint = IF env.DEFAULT_ENDPOINT # "" THEN env.DEFAULT_ENDPOINT
                                  ELSE "openai",
                     !.model = IF env.DEFAULT_MODEL # "" THEN env.DEFAULT_MODEL
                               ELSE "gpt-3.5-turbo",
                     !.clients = InitializedClients(env),
                     !.start = [endpoint |-> IF env.DEFAULT_ENDPOINT # ""
                                             THEN env.DEFAULT_ENDPOINT ELSE "openai",
                                model |-> IF env.DEFAULT_MODEL # ""
                                          THEN env.DEFAULT_MODEL ELSE "gpt-3.5-turbo"]]
    /\ UNCHANGED outsideManager

\* ModelManager.switchEndpoint, lines 128-137: the endpoint afterwards
SwitchedEndpoint(current, name) ==
    IF Truthy(EndpointKeys, name) THEN name ELSE current

\* ModelManager.switchModel, lines 140-156: model and endpoint afterwards and
\* the value returned
SwitchedModel(st, id) ==
    IF Truthy(ModelKeys, id)
    THEN [model |-> id,
          endpoint |-> IF ProviderOf(id) # st.endpoint
                       THEN SwitchedEndpoint(st.endpoint, ProviderOf(id))
                       ELSE st.endpoint,
          returned |-> TRUE]
    ELSE [model |-> st.model, endpoint |-> st.endpoint, returned |-> FALSE]

Stepped(op) ==
    [manager EXCEPT !.before = [endpoint |-> manager.endpoint, model |-> manager.model],
                    !.op = op, !.steps = @ + 1, !.chat = "none"]

SwitchModel(id) ==
    /\ manager.pc = "ready"
    /\ manager.steps < MaxSwitches
    /\ LET to == SwitchedModel(manager, id)
       IN  manager' = [Stepped([kind |-> "switchModel", arg |-> id,
                                returned |-> to.returned])
                         EXCEPT !.model = to.model, !.endpoint = to.endpoint]
    /\ UNCHANGED outsideManager

SwitchEndpoint(name) ==
    /\ manager.pc = "ready"
    /\ manager.steps < MaxSwitches
    /\ manager' = [Stepped([kind |-> "switchEndpoint", arg |-> name,
                            returned |-> Truthy(EndpointKeys, name)])
                     EXCEPT !.endpoint = SwitchedEndpoint(manager.endpoint, name)]
    /\ UNCHANGED outsideManager

\* AdvancedModelClient.chat, lines 58-110, up to the call of the provider's
\* client: the branch taken, or the error thrown before any branch
Dispatch(endpoint, clients) ==
    LET name == LowerName(endpoint)
    IN  IF name = "TypeError" THEN "TypeError"
        ELSE IF name \notin clients THEN "No client available"
        ELSE IF name \in {"openai", "salesforce", "anthropic"} THEN name
        ELSE "Unsupported endpoint"

AdvancedChat ==
    /\ manager.pc = "ready"
    /\ manager.chat = "none"
    /\ manager' = [manager EXCEPT !.chat = Dispatch(manager.endpoint, manager.clients)]
    /\ UNCHANGED outsideManager

(***************************************************************************)
(* getMCPTools (src/src/mcp/mcp-tool-loader.ts).                           *)
(***************************************************************************)
\* tools a server lists
MaxTools == 2

\* the serverName argument: "" stands for an argument not given; the only
\* key of mcpJson.servers is 'Salesforce DX'; constructor is one of the names
\* the object literal inherits from Object.prototype
ServerNames == {"", "Salesforce DX", "unknown", "constructor"}

ToolLists == UNION {[1..n -> {"run_apex_test", "deploy"}] : n \in 0..MaxTools}

McpErrors == {"McpError", "ConnectionClosed"}

\* line 51: serverName || Object.keys(mcpJson.servers)[0]
TargetServerName(serverName) == IF serverName = "" THEN "Salesforce DX" ELSE serverName

\* a lookup among the keys of the object literal only
OwnServerConfig(name) == name = "Salesforce DX"

\* lines 57-59: mcpJson.servers[targetServerName] is truthy
HasServerConfig(name) == name \in {"Salesforce DX", "constructor"}

\* lines 118-121: the catch block takes the error and calls client.close()
Cleanup(st, e) ==
    [st EXCEPT !.pc = "cleanup", !.thrown = e, !.calls = Append(@, "close")]

InitMcp ==
    mcp = [pc |-> "idle", serverName |-> "", created |-> FALSE, calls |-> <<>>,
           tools |-> <<>>, outcome |-> "pending", thrown |-> Null]

\* lines 49-99: the lookup, the client and the transport, and the call of
\* client.connect
GetMCPTools(serverName) ==
    /\ mcp.pc = "idle"
    /\ mcp' = IF HasServerConfig(TargetServerName(serverName))
              THEN [mcp EXCEPT !.pc = "connect", !.serverName = serverName,
                               !.created = TRUE, !.calls = <<"connect">>]
              ELSE [mcp EXCEPT !.pc = "settled", !.serverName = serverName,
                               !.outcome = "threw", !.thrown = "not found"]
    /\ UNCHANGED outsideMcp

\* client.connect settles: line 99, then the call of listTools at line 103
McpConnect(e) ==
    /\ mcp.pc = "connect"
    /\ mcp' = IF e = Null
              THEN [mcp EXCEPT !.pc = "listTools", !.calls = Append(@, "listTools")]
              ELSE Cleanup(mcp, e)
    /\ UNCHANGED outsideMcp

\* client.listTools settles: lines 103-115, up to the call of client.close
McpListTools(e, tools) ==
    /\ mcp.pc = "listTools"
    /\ mcp' = IF e = Null
              THEN [mcp EXCEPT !.pc = "close", !.tools = tools,
                               !.calls = Append(@, "close")]
              ELSE Cleanup(mcp, e)
    /\ UNCHANGED outsideMcp

\* client.close of line 115 settles: lines 115-117
McpClose(e) ==
    /\ mcp.pc = "close"
    /\ mcp' = IF e = Null
              THEN [mcp EXCEPT !.pc = "settled", !.outcome = "returned"]
              ELSE Cleanup(mcp, e)
    /\ UNCHANGED outsideMcp

\* client.close of line 121 settles, whichever way: lines 122-126
McpCleanupSettles(e) ==
    /\ mcp.pc = "cleanup"
    /\ mcp' = [mcp EXCEPT !.pc = "settled", !.outcome = "threw"]
    /\ UNCHANGED outsideMcp

(***************************************************************************)
(* ToolDiscoveryAgent.discover (src/src/openai-streaming-client.ts).       *)
(***************************************************************************)
\* the largest maxSteps option
MaxSteps == 2

\* the Response values codingModel.chat resolves with: the results of
\* EinsteinDevModelClient.chat with and without an error and a generation,
\* and the {error: null, messages: null} other ModelClients return
CodingReplies ==
    {EinsteinReturn(e, g) :
        e \in {Null, "APIError401"},
        g \in {<<>>, <<[id |-> "g1", role |-> "assistant", content |-> "a"]>>,
               <<[id |-> "g1", role |-> "assistant", content |-> "b"]>>}}
    \cup {[error |-> Null, messages |-> NullMessages]}

\* nextAction of the object the judge returns
Verdicts == {"continue", "fail", "success"}

\* lines 486-496: the exception the reply makes discover throw (Null: none);
\* messages[0] of an empty array is undefined, and reading its role throws
ReplyThrows(data) ==
    IF data.error # Null THEN "Error: " \o data.error
    ELSE IF data.messages.isNull THEN "Messages are null"
    ELSE IF data.messages.list = <<>> THEN "TypeError"
    ELSE Null

\* lines 512-515: the first verdict fail is turned into continue when the
\* A4V setting is on
Judgement(verdict, step, enableA4VSetting) ==
    IF step = 1 /\ enableA4VSetting /\ verdict = "fail" THEN "continue" ELSE verdict

\* line 520: the condition of the do-while loop, read after step++
LoopsAgain(nextAction, step, maxSteps) ==
    nextAction = "continue" /\ step <= maxSteps

InitAgent ==
    agent = [pc |-> "idle", maxSteps |-> 0, a4v |-> FALSE, step |-> 0, calls |-> 0,
             verdicts |-> <<>>, nextAction |-> "none", reply |-> NoResult,
             outcome |-> "pending", value |-> FALSE, thrown |-> Null]

\* discover(userPrompt, toolName, enableA4VSetting) on an agent made with
\* maxSteps: lines 472-485, up to the first call of codingModel.chat
Discover(maxSteps, enableA4VSetting) ==
    /\ agent.pc = "idle"
    /\ agent' = [agent EXCEPT !.pc = "coding", !.maxSteps = maxSteps,
                              !.a4v = enableA4VSetting, !.calls = 1]
    /\ UNCHANGED outsideAgent

\* codingModel.chat resolves: lines 485-502, up to the call of the judge
CodingModelReplies(data) ==
    /\ agent.pc = "coding"
    /\ agent' = IF ReplyThrows(data) # Null
                THEN [agent EXCEPT !.pc = "settled", !.reply = data,
                                   !.outcome = "threw", !.thrown = ReplyThrows(data)]
                ELSE [agent EXCEPT !.pc = "judging", !.reply = data]
    /\ UNCHANGED outsideAgent

\* generateObject resolves with a verdict: lines 504-525
JudgeReplies(verdict) ==
    /\ agent.pc = "judging"
    /\ LET step == agent.step + 1
           nextAction == Judgement(verdict, step, agent.a4v)
           judged == [agent EXCEPT !.step = step, !.nextAction = nextAction,
                                   !.verdicts = Append(@, verdict)]
       IN  agent' = IF LoopsAgain(nextAction, step, agent.maxSteps)
                    THEN [judged EXCEPT !.pc = "coding", !.calls = @ + 1]
                    ELSE [judged EXCEPT !.pc = "settled", !.outcome = "returned",
                                        !.value = (nextAction = "success")]
    /\ UNCHANGED outsideAgent

\* generateObject rejects: nothing in discover catches it
JudgeFails ==
    /\ agent.pc = "judging"
    /\ agent' = [agent EXCEPT !.pc = "settled", !.outcome = "threw",
                              !.thrown = "APICallError"]
    /\ UNCHANGED outsideAgent

(***************************************************************************)
(* OpenAIStreamingWebClient.chatCompletions                                *)
(* (src/src/openai-streaming-client.ts lines 265-305).                     *)
(***************************************************************************)
\* chunks of one completions stream
MaxDeltas == 2

\* chunk.choices[0]?.delta?.content of a chunk: "" stands for a chunk with
\* no choice, no delta, no content or an empty content
DeltaContents == {"", "a", "b"}

RECURSIVE DeltaStreams(_)
DeltaStreams(n) ==
    IF n = 0 THEN {<<>>}
    ELSE DeltaStreams(n - 1)
         \cup {Append(d, c) : d \in {x \in DeltaStreams(n - 1) : Len(x) = n - 1},
                              c \in DeltaContents}

\* the callbacks of an options argument
CompletionCallbacks == SUBSET {"onContent", "onError", "onEnd"}

\* what create or the iteration rejects with
CompletionErrors == {"APIError401", "APIConnectionError"}

\* lines 301-304: emit('error', error) throws the error when the client has
\* no 'error' listener, and the promise rejects before onError is reached
Caught(st, e) ==
    IF ~st.listening
    THEN [st EXCEPT !.pc = "settled", !.outcome = "rejected", !.thrown = e]
    ELSE [st EXCEPT !.pc = "settled", !.outcome = "resolved",
                    !.emitted = Append(@, "error"),
                    !.calls = IF "onError" \in st.given
                              THEN Append(@, [name |-> "onError", arg |-> e]) ELSE @]

InitCompletions ==
    completions = [pc |-> "idle", listening |-> FALSE, given |-> {}, deltas |-> <<>>,
                   pos |-> 0, emitted |-> <<>>, calls |-> <<>>, outcome |-> "pending",
                   thrown |-> Null, failed |-> FALSE]

\* chatCompletions(messages, options) on a client that has or has not an
\* 'error' listener (chat registers one per call that passes onError);
\* chatCompletions registers none
ChatCompletions(listening, given) ==
    /\ completions.pc = "idle"
    /\ completions' = [completions EXCEPT !.pc = "creating", !.listening = listening,
                                          !.given = given]
    /\ UNCHANGED outsideCompletions

\* line 284: openai.chat.completions.create rejects
CreateFails(e) ==
    /\ completions.pc = "creating"
    /\ completions' = Caught([completions EXCEPT !.failed = TRUE], e)
    /\ UNCHANGED outsideCompletions

\* lines 284-290: create resolves with a stream of these chunks
CreateOk(deltas) ==
    /\ completions.pc = "creating"
    /\ completions' = [completions EXCEPT !.pc = "iterating", !.deltas = deltas]
    /\ UNCHANGED outsideCompletions

\* lines 292-298: the next chunk of the stream
CompletionChunk ==
    /\ completions.pc = "iterating"
    /\ completions.pos < Len(completions.deltas)
    /\ LET content == completions.deltas[completions.pos + 1]
       IN  completions' =
             [completions EXCEPT
                !.pos = @ + 1,
                !.emitted = IF content # "" THEN Append(@, "content") ELSE @,
                !.calls = IF content # "" /\ "onContent" \in completions.given
                          THEN Append(@, [name |-> "onContent", arg |-> content])
                          ELSE @]
    /\ UNCHANGED outsideCompletions

\* the iteration of line 292 rejects: the connection drops between chunks
IterationFails(e) ==
    /\ completions.pc = "iterating"
    /\ completions' = Caught([completions EXCEPT !.failed = TRUE], e)
    /\ UNCHANGED outsideCompletions

\* line 300: the stream is exhausted and onEnd is called
CompletionsEnd ==
    /\ completions.pc = "iterating"
    /\ completions.pos = Len(completions.deltas)
    /\ completions' = [completions EXCEPT
                         !.pc = "settled", !.outcome = "resolved",
                         !.calls = IF "onEnd" \in completions.given
                                   THEN Append(@, [name |-> "onEnd", arg |-> ""]) ELSE @]
    /\ UNCHANGED outsideCompletions

(***************************************************************************)
(* Specifications.                                                         *)
(***************************************************************************)
vars == <<chatVars, sseVars, request, instance, pair, express, web, enhanced, manager, mcp, agent, completions>>

Init == InitChat /\ InitSSE /\ InitRequest /\ InitInstance /\ InitPair
        /\ InitExpress
        /\ InitWeb
        /\ InitEnhanced
        /\ InitManager
        /\ InitMcp
        /\ InitAgent
        /\ InitCompletions

\* one chat turn
Next ==
    \/ \E c \in Callers : Chat(c)
    \/ \E e \in TransportErrors : PostFails(e)
    \/ PostOk
    \/ \E c \in Chunks : NextChunk(c)
    \/ StreamEnd
    \/ \E e \in StreamErrors : StreamThrows(e)

Spec == Init /\ [][Next]_vars

\* one SSE body and its decoders
SSENext ==
    \/ \E rec \in SSERecords : Receive(rec)
    \/ DoGenerate
    \/ DoGenerateTest
    \/ ProcessStreamWeb

SpecSSE == Init /\ [][SSENext]_vars

\* one chat call up to the request it sends
RequestNext ==
    \/ \E config \in ModelConfigurations : \E messages \in MessageLists :
          EinsteinChatRequest(config, messages)
    \/ \E config \in ModelConfigurations : \E messages \in MessageLists :
       \E maxTokens \in MaxTokenOptions : \E temperature \in Temperatures :
          StreamingChatRequest(config, messages, maxTokens, temperature)
    \/ \E model \in {"undefined", "xgen_stream"} : \E messages \in MessageLists :
       \E maxTokens \in MaxTokenOptions : \E temperature \in Temperatures :
          WebChatRequest(model, messages, maxTokens, temperature)

SpecRequest == Init /\ [][RequestNext]_vars

\* chat calls on one OpenAIStreamingClient object
InstanceNext ==
    \/ \E callbacks \in CallbackSets : InstanceChat(callbacks)
    \/ \E k \in 1..MaxCalls : InstancePostFails(k)
    \/ \E k \in 1..MaxCalls : InstancePostOk(k)
    \/ \E k \in 1..MaxCalls : InstanceContent(k)
    \/ \E k \in 1..MaxCalls : InstanceEnd(k)
    \/ \E k \in 1..MaxCalls : InstanceStreamThrows(k)

SpecInstance == Init /\ [][InstanceNext]_vars

\* two EinsteinDevModelClient.chat calls, their steps interleaved
PairNext ==
    \/ \E k \in EinsteinCalls : PairChat(k)
    \/ \E k \in EinsteinCalls : \E e \in TransportErrors : PairPostFails(k, e)
    \/ \E k \in EinsteinCalls : PairPostOk(k)
    \/ \E k \in EinsteinCalls : \E c \in PairChunks : PairNextChunk(k, c)
    \/ \E k \in EinsteinCalls : PairStreamEnd(k)
    \/ \E k \in EinsteinCalls : \E e \in StreamErrors : PairStreamThrows(k, e)

SpecPair == Init /\ [][PairNext]_vars

\* one LLMExpressModelClient.chat call
ExpressNext ==
    \/ \E model \in ExpressModels : \E messages \in MessageLists :
          ExpressChat(model, messages)
    \/ \E e \in FetchErrors : ExpressFetchRejects(e)
    \/ \E status \in Statuses : \E body \in ResponseBodies :
          ExpressResponse(status, body)
    \/ ExpressJson

SpecExpress == Init /\ [][ExpressNext]_vars

\* one processStream run over the reads of a body
WebNext ==
    \/ \E text \in Texts : WebOpen(text)
    \/ \E n \in 1..MaxText : WebRead(n)
    \/ WebDone
    \/ WebReadFails

SpecWeb == Init /\ [][WebNext]_vars

\* one call on an EnhancedStreamingClient
EnhancedNext ==
    \/ \E config \in RetryConfigs : ChatWithRetry(config)
    \/ \E config \in RetryConfigs : StreamWithProgress(config)
    \/ \E e \in TransportErrors : EnhancedPostFails(e)
    \/ \E body \in FragmentBodies : EnhancedPostOk(body)
    \/ EnhancedStreamEnds
    \/ \E n \in 0..MaxFragments, e \in StreamErrors : EnhancedReadFails(n, e)

SpecEnhanced == Init /\ [][EnhancedNext]_vars

\* model and endpoint switches and chat calls on one AdvancedModelClient
ManagerNext ==
    \/ \E env \in Environments : NewAdvancedModelClient(env)
    \/ \E id \in SwitchNames : SwitchModel(id)
    \/ \E name \in SwitchNames : SwitchEndpoint(name)
    \/ AdvancedChat

SpecManager == Init /\ [][ManagerNext]_vars

\* one getMCPTools call
McpNext ==
    \/ \E name \in ServerNames : GetMCPTools(name)
    \/ \E e \in McpErrors \cup {Null} : McpConnect(e)
    \/ \E e \in McpErrors \cup {Null}, tools \in ToolLists : McpListTools(e, tools)
    \/ \E e \in McpErrors \cup {Null} : McpClose(e)
    \/ \E e \in McpErrors \cup {Null} : McpCleanupSettles(e)

SpecMcp == Init /\ [][McpNext]_vars

\* one discover call
AgentNext ==
    \/ \E maxSteps \in 1..MaxSteps, enableA4VSetting \in BOOLEAN :
          Discover(maxSteps, enableA4VSetting)
    \/ \E data \in CodingReplies : CodingModelReplies(data)
    \/ \E verdict \in Verdicts : JudgeReplies(verdict)
    \/ JudgeFails

SpecAgent == Init /\ [][AgentNext]_vars

\* one chatCompletions call
CompletionsNext ==
    \/ \E listening \in BOOLEAN, given \in CompletionCallbacks :
          ChatCompletions(listening, given)
    \/ \E e \in CompletionErrors : CreateFails(e)
    \/ \E deltas \in DeltaStreams(MaxDeltas) : CreateOk(deltas)
    \/ CompletionChunk
    \/ \E e \in CompletionErrors : IterationFails(e)
    \/ CompletionsEnd

SpecCompletions == Init /\ [][CompletionsNext]_vars

(***************************************************************************)
(* Helpers of the properties.                                              *)
(***************************************************************************)
Settled == pc = "settled"
EinsteinReturned == pc = "settled" /\ caller = "einstein"

\* the emit calls named name, and those caused by a generation with id
CountNotes(name) == Cardinality({n \in 1..Len(log) : log[n].name = name})

GenerationNotes == {n \in 1..Len(log) : log[n].name = "generation"}

NoteEntry(n) == received[log[n].k].gens[log[n].i]

SeenIds == {NoteEntry(n).id : n \in GenerationNotes}

FirstNote(id) ==
    CHOOSE n \in GenerationNotes :
        /\ NoteEntry(n).id = id
        /\ \A m \in GenerationNotes : NoteEntry(m).id = id => n <= m

\* f1 + f2 + ... + fn over the generation events with this id, from note n on
RECURSIVE Fragments(_, _)
Fragments(id, n) ==
    IF n > Len(log) THEN ""
    ELSE IF log[n].name = "generation" /\ NoteEntry(n).id = id
         THEN NoteEntry(n).content \o Fragments(id, n + 1)
         ELSE Fragments(id, n + 1)

ExpectedMessage(id) ==
    [role |-> NoteEntry(FirstNote(id)).role, content |-> Fragments(id, 1)]

\* the ids in the order of their first generation event
RECURSIVE FirstSeenOrder(_, _)
FirstSeenOrder(n, seen) ==
    IF n > Len(log) THEN <<>>
    ELSE IF log[n].name = "generation" /\ NoteEntry(n).id \notin seen
         THEN <<NoteEntry(n).id>> \o FirstSeenOrder(n + 1, seen \cup {NoteEntry(n).id})
         ELSE FirstSeenOrder(n + 1, seen)

HasDone == \E k \in 1..Len(received) : received[k] = DoneChunk

\* The whole of EinsteinDevModelClient.chat on a stream that yields chunks
\* and then ends: what it returns.
RECURSIVE RunStream(_, _, _)
RunStream(cl, chunks, k) ==
    IF k > Len(chunks)
    THEN EinsteinReturn(OnNotes(cl, AfterLoop, chunks).error,
                        OnNotes(cl, AfterLoop, chunks).generations)
    ELSE LET p == ProcessGeneration(chunks[k], k)
         IN  IF p.thrown = Null
             THEN RunStream(OnNotes(cl, p.emits, chunks), chunks, k + 1)
             ELSE LET after == OnNotes(cl, p.emits \o CatchEmits(p.thrown), chunks)
                  IN  EinsteinReturn(after.error, after.generations)


(***************************************************************************)
(* Properties of the chat turn (specification Spec).                       *)
(***************************************************************************)
\* C1: whatever the stream did, the value EinsteinDevModelClient.chat returns
\* has exactly one of error and messages non-null: error null and a message
\* sequence when nothing failed, an error and null messages when something
\* failed.
C1_ResultInvariant ==
    EinsteinReturned =>
        /\ (result.error # Null) # (~result.messages.isNull)
        /\ result.error # "none"
        /\ failure = Null => result.error = Null /\ ~result.messages.isNull
        /\ failure # Null => result.error # Null /\ result.messages.isNull

C1_Witness ==
    /\ EinsteinReturned
    /\ failure = "StreamReadError"
    /\ generations # <<>>
    /\ result.messages.isNull

\* C2: a failure to open the stream or a failure while it is read does not
\* escape EinsteinDevModelClient.chat: the call returns the causing error
\* with null messages, and the generations gathered so far are not returned.
C2_FailureInResult ==
    (EinsteinReturned /\ failure # Null) =>
        /\ inner = "resolved"
        /\ result = [error |-> failure, messages |-> NullMessages]

C2_Witness ==
    /\ EinsteinReturned
    /\ failure = "APIError401"
    /\ result.error = "APIError401"

C4_EndOnceAfterDone ==
    (Settled /\ HasDone) => CountNotes("end") = 1

\* C5: nothing but the end itself follows an end notification: no chunk,
\* generation, content or error notification is emitted after it.
C5_EndIsLast ==
    \A n \in 1..Len(log) : \A m \in 1..Len(log) :
        (log[n].name = "end" /\ n < m) =>
            log[m].name \notin {"chunk", "generation", "content", "error"}

C7_NoDoneIsBenign ==
    (Settled /\ failure = Null /\ ~HasDone) =>
        /\ CountNotes("end") = 1
        /\ log[Len(log)].name = "end"
        /\ CountNotes("error") = 0
        /\ inner = "resolved"
        /\ caller = "einstein" =>
              /\ result.error = Null
              /\ result = RunStream(EmptyClosure, Append(received, DoneChunk), 1)

C7_Witness ==
    /\ EinsteinReturned
    /\ failure = Null
    /\ ~HasDone
    /\ Len(result.messages.list) = 2

\* C8: the returned messages follow the order in which their ids first
\* appeared in the stream, whatever the ids are.
C8_FirstSeenOrder ==
    (EinsteinReturned /\ result.error = Null) =>
        result.messages.list =
            [j \in 1..Len(FirstSeenOrder(1, {})) |->
                ExpectedMessage(FirstSeenOrder(1, {})[j])]

\* The classification of section 4.1: a generation batch whose entries all
\* have the expected shape, the DONE signal, or unrecognized.
WellFormedBatch(chunk) ==
    /\ chunk.ctype = "object"
    /\ chunk.event = "generation"
    /\ chunk.dtype = "object"
    /\ chunk.gdtype = "object"
    /\ chunk.gtype = "array"
    /\ \A i \in 1..Len(chunk.gens) :
          chunk.gens[i].role \in Roles /\ chunk.gens[i].shapeOk

Unrecognized(chunk) == ~WellFormedBatch(chunk) /\ chunk # DoneChunk

\* C9: an unrecognized chunk is dropped: it makes the session neither fail
\* nor emit an error, and the chunks after it are processed.
C9_UnrecognizedDropped ==
    \A k \in 1..Len(received) :
        Unrecognized(received[k]) =>
            ~(Settled /\ k = Len(received) /\ failure \in {"TypeError", "ZodError"})

ErrorNotes == SelectSeq(log, LAMBDA n : n.name = "error")

\* C12: in one EinsteinDevModelClient.chat call the error of the result is
\* the first error reported in that call: at most one error is reported, by
\* onError, no exception escapes the streaming client after it, and the
\* result carries that error.
C12_FirstErrorKept ==
    EinsteinReturned =>
        /\ Len(ErrorNotes) <= 1
        /\ ErrorNotes # <<>> =>
              /\ result.error = ErrorNotes[1].err
              /\ inner = "resolved"
        /\ ErrorNotes = <<>> => result.error = Null

\* a decode failure in the second chunk, after a generation was delivered
C12_Witness ==
    /\ EinsteinReturned
    /\ Len(received) = 2
    /\ CountNotes("generation") >= 1
    /\ ErrorNotes = <<Note("error", 0, 0, "TypeError")>>
    /\ result.error = "TypeError"

\* the generation notifications caused by chunk number k, in order
GenerationsOf(k) ==
    SelectSeq(log, LAMBDA note : note.k = k /\ note.name = "generation")

\* chunk k went through processGeneration without an exception
Processed(k) ==
    ~(Settled /\ k = Len(received) /\ failure \in {"TypeError", "ZodError"})

\* C14: notifications follow the order of the chunks: what an earlier chunk
\* caused precedes what a later chunk caused; each chunk causes one chunk
\* notification, which is the first of its notifications; its generation
\* notifications follow the order of the generations list, one for each
\* element of the list.
C14_ChunkOrder ==
    \* the chunk numbers never decrease along the log; the notifications no
    \* chunk caused (the end after the loop, the error) come last
    /\ \A n \in 1..Len(log) :
          /\ log[n].k \in 0..Len(received)
          /\ n > 1 => (log[n].k = 0 \/ (0 < log[n - 1].k /\ log[n - 1].k <= log[n].k))
          \* the chunk notification opens the notifications of its chunk
          /\ log[n].name = "chunk" <=>
                (log[n].k > 0 /\ (n = 1 \/ log[n - 1].k < log[n].k))
    /\ \A k \in 1..Len(received) :
          LET caused == GenerationsOf(k)
          IN  /\ \E n \in 1..Len(log) : log[n] = Note("chunk", k, 0, Null)
              /\ \A j \in 1..Len(caused) : caused[j].i = j
              /\ Len(caused) <= Len(received[k].gens)
              /\ caused # <<>> => IsEventResponse(received[k]) = "true"
              /\ (Processed(k) /\ WellFormedBatch(received[k])) =>
                    Len(caused) = Len(received[k].gens)

\* a batch of one and then a batch of two, all delivered
C14_Witness ==
    /\ Settled
    /\ failure = Null
    /\ Len(received) = 2
    /\ Len(received[1].gens) = 1
    /\ Len(received[2].gens) = 2
    /\ CountNotes("generation") = 3
    /\ CountNotes("chunk") = 2

\* C15: each generation of a batch is handed to onGeneration after passing
\* GenerationSchema; onContent follows directly, with that generation's
\* content, exactly when the content is not empty, and onContent is invoked
\* at no other place.
C15_ContentAfterGeneration ==
    /\ \A n \in 1..Len(log) :
          log[n].name = "generation" =>
              /\ GenerationSchemaAccepts(NoteEntry(n))
              /\ NoteEntry(n).content # "" =>
                    /\ n < Len(log)
                    /\ log[n + 1] = Note("content", log[n].k, log[n].i, Null)
              /\ NoteEntry(n).content = "" =>
                    (n < Len(log) => log[n + 1].name # "content")
    /\ \A n \in 1..Len(log) :
          log[n].name = "content" =>
              /\ n > 1
              /\ log[n - 1] = Note("generation", log[n].k, log[n].i, Null)
              /\ NoteEntry(n).content # ""
    /\ \A k \in 1..Len(received) :
          (Processed(k) /\ WellFormedBatch(received[k])) =>
              \A i \in 1..Len(received[k].gens) :
                  \E n \in 1..Len(log) : log[n] = Note("generation", k, i, Null)

\* a batch whose first generation has empty content and whose second has not
C15_Witness ==
    /\ Len(log) >= 4
    /\ log[1].name = "chunk"
    /\ log[2] = Note("generation", 1, 1, Null)
    /\ NoteEntry(2).content = ""
    /\ log[3] = Note("generation", 1, 2, Null)
    /\ log[4] = Note("content", 1, 2, Null)

\* the two forms of the DONE signal: data 'DONE' and data ['DONE']
DoneForm(chunk) ==
    /\ chunk.ctype = "object"
    /\ chunk.event = "generation"
    /\ chunk.dtype \in {"string", "array"}
    /\ chunk.dstr = "DONE"

\* C16: a chunk is taken as the DONE signal, which makes processGeneration
\* emit the end notification for it, exactly when its event is 'generation'
\* and its data is 'DONE' or the one-element array ['DONE'].
C16_DoneBothForms ==
    \A k \in 1..Len(received) :
        DoneForm(received[k]) <=>
            \E n \in 1..Len(log) : log[n] = Note("end", k, 0, Null)


C29_ChatNeverRejects ==
    (Settled /\ failure \in TransportErrors \cup StreamErrors) => inner = "resolved"

(***************************************************************************)
(* Properties of the SSE decoders (specification SpecSSE).                 *)
(***************************************************************************)
\* a body of generation records whose data is a generation or is not JSON
OnlyGenerationsAndNoise(body) ==
    \A j \in 1..Len(body) :
        /\ body[j].event = "generation"
        /\ body[j].data.kind \in {"generation", "invalid"}
        /\ body[j].data.text = ""

HasNoise(body) == \E j \in 1..Len(body) : body[j].data.kind = "invalid"

\* the contents of the valid generation lines, in order
RECURSIVE ValidContents(_)
ValidContents(body) ==
    IF body = <<>> THEN ""
    ELSE (IF Head(body).data.kind = "generation" THEN Head(body).data.content ELSE "")
         \o ValidContents(Tail(body))

\* C10: in each of the three decoders of raw SSE text, a data: line that is
\* not JSON is skipped: nothing is raised, no error is emitted, and the
\* contents of the valid generation lines around it are concatenated in
\* order.
C10_BadJsonSkipped ==
    (OnlyGenerationsAndNoise(sseBody) /\ HasNoise(sseBody)) =>
        /\ genOut # Pending =>
              genOut = [raised |-> Null, text |-> ValidContents(sseBody)]
        /\ testOut # PendingRead =>
              /\ testOut.raised = Null
              /\ testOut.text = ValidContents(sseBody)
        /\ webOut # PendingNotes =>
              /\ \A n \in 1..Len(webOut.notes) : webOut.notes[n] # "error"
              /\ webOut.text = ValidContents(sseBody)

\* the emit calls of processStream that are named name
CountWeb(name) ==
    Cardinality({n \in 1..Len(webOut.notes) : webOut.notes[n] = name})

\* a body of generation records whose data is a JSON generation payload
OnlyGenerationRecords(body) ==
    /\ body # <<>>
    /\ \A j \in 1..Len(body) :
          body[j].event = "generation" /\ body[j].data.kind = "generation"

\* C20: for a body of 'event: generation' / 'data: <json>' records,
\* processStream pairs each event: line with its data: line: it emits one
\* chunk notification per record and one content notification per
\* generation that carries text, no error, and the end notification last.
C20_RecordsPaired ==
    (webOut # PendingNotes /\ OnlyGenerationRecords(sseBody)) =>
        /\ CountWeb("chunk") = Len(sseBody)
        /\ CountWeb("content") =
              Cardinality({j \in 1..Len(sseBody) :
                  sseBody[j].data.content # "" \/ sseBody[j].data.text # ""})
        /\ CountWeb("error") = 0
        /\ webOut.notes[Len(webOut.notes)] = "end"

\* the content of generations[0] in the last data: line of the body that
\* carries a non-empty one ("" when no line does)
RECURSIVE LatestContent(_, _)
LatestContent(body, latest) ==
    IF body = <<>> THEN latest
    ELSE LatestContent(Tail(body),
             IF JsonParses(Head(body).data) /\ ContentOf(Head(body).data) # ""
             THEN ContentOf(Head(body).data) ELSE latest)

\* C30: the gateway sends the full content in each chunk, so the text
\* doGenerate returns is the latest non-empty content of generations[0]
\* among the data: lines: a later chunk replaces an earlier one.
C30_LatestContentReturned ==
    genOut # Pending => genOut.text = LatestContent(sseBody, "")

\* the position of the first record of the body whose event is error (0: none)
FirstErrorEvent(body) ==
    IF \E j \in 1..Len(body) : body[j].event = "error"
    THEN CHOOSE j \in 1..Len(body) :
            /\ body[j].event = "error"
            /\ \A i \in 1..(j - 1) : body[i].event # "error"
    ELSE 0

C13_DefaultTokenBudget ==
    request.client # "none" =>
        request.body.gsMaxTokens =
            IF request.option.given THEN request.option.value ELSE 2048

\* EinsteinDevModelClient.chat with a configuration that has no maxTokens
C13_Witness ==
    /\ request.client = "einstein"
    /\ ~request.option.given
    /\ request.body.gsMaxTokens = 2048
\* what C22 says of the body apart from the stream field: the configured
\* model, the caller's messages, and generation_settings with the token
\* budget and the configured parameter bag
BodyOfConfiguration ==
    /\ request.body.model = request.config
    /\ request.body.messages = request.messages
    /\ request.body.gsMaxTokens = MaxTokensDefault(request.option)
    /\ request.body.gsParameters =
          IF request.parameters = "absent" THEN "{}" ELSE request.parameters

\* C22 as stated: the body OpenAIStreamingClient.chat sends has the
\* configured model, the caller's messages unchanged and in order,
\* generation_settings {max_tokens, parameters: the configured bag} and
\* stream: true.
C22_BodyWithStream ==
    request.client \in {"einstein", "streaming"} =>
        /\ BodyOfConfiguration
        /\ request.body.stream = "true"

\* C22 as amended: the body has the configured model, the caller's messages
\* unchanged and in order, and generation_settings {max_tokens, parameters:
\* the configured bag}; it has no stream field: stream: true is an option
\* of the transport call.
C22_BodyAndTransportStream ==
    request.client \in {"einstein", "streaming"} =>
        /\ BodyOfConfiguration
        /\ request.body.stream = "absent"
        /\ request.transportStream

C22_Witness ==
    /\ request.client = "streaming"
    /\ Len(request.messages) = 2
    /\ request.messages[1] # request.messages[2]
    /\ request.body.messages = request.messages
    /\ request.body.gsParameters = "{command_source:Chat}"
    /\ request.body.stream = "absent"

(***************************************************************************)
(* Properties of repeated chat calls (specification SpecInstance).         *)
(***************************************************************************)
\* the listeners of all calls so far, in the order of the calls
RECURSIVE AllRegistrations(_, _)
AllRegistrations(calls, k) ==
    IF k > Len(calls) THEN <<>>
    ELSE Registrations(k, calls[k].callbacks) \o AllRegistrations(calls, k + 1)

C33_OwnCallbacksOnly ==
    \A i \in instance.invoked : i.of = i.by

(***************************************************************************)
(* Properties of two calls in flight (specification SpecPair).             *)
(***************************************************************************)
\* EinsteinDevModelClient.chat run alone on a stream that yields chunks and
\* then ends as ending tells (Null: exhausted; otherwise the error of post
\* or of the read): what it returns.
RECURSIVE RunAlone(_, _, _, _)
RunAlone(cl, chunks, k, ending) ==
    IF k > Len(chunks)
    THEN LET last == IF ending = Null THEN AfterLoop ELSE CatchEmits(ending)
             after == OnNotes(cl, last, chunks)
         IN  EinsteinReturn(after.error, after.generations)
    ELSE LET p == ProcessGeneration(chunks[k], k)
         IN  IF p.thrown = Null
             THEN RunAlone(OnNotes(cl, p.emits, chunks), chunks, k + 1, ending)
             ELSE LET after == OnNotes(cl, p.emits \o CatchEmits(p.thrown), chunks)
                  IN  EinsteinReturn(after.error, after.generations)

\* C18: two EinsteinDevModelClient.chat calls on one client object share no
\* state: however the chunks of their streams interleave, each call returns
\* what it returns when it runs alone on its own stream.
C18_CallsIndependent ==
    \A k \in EinsteinCalls :
        pair.calls[k].pc = "settled" =>
            pair.calls[k].result =
                RunAlone(EmptyClosure, pair.calls[k].received, 1,
                         IF pair.calls[k].failure \in {"TypeError", "ZodError"}
                         THEN Null ELSE pair.calls[k].failure)

\* both calls returned messages, each from its own two chunks, and a chunk
\* of one call was delivered between two chunks of the other
C18_Witness ==
    /\ pair.mixed
    /\ \A k \in EinsteinCalls :
          /\ pair.calls[k].pc = "settled"
          /\ Len(pair.calls[k].received) = 2
          /\ pair.calls[k].result.error = Null
    /\ pair.calls[1].result.messages.list = <<[role |-> "assistant", content |-> "aa"]>>
    /\ pair.calls[2].result.messages.list =
          <<[role |-> "user", content |-> "b"], [role |-> "assistant", content |-> "a"]>>

C19_ExpressResultInvariant ==
    express.pc = "settled" =>
        /\ express.outcome = "resolved"
        /\ (express.result.error # Null)
              # (express.result.messages.kind \notin {"null", "undefined"})

(***************************************************************************)
(* Properties of processStream over reads (specification SpecWeb).         *)
(***************************************************************************)
\* processStream on the characters read so far when they come in one read
OneRead(chars) ==
    ProcessReadLines(Complete(SplitNewline(chars, <<>>)),
                     [handed |-> <<>>, notes |-> <<>>, thrown |-> FALSE])

\* C21: however the transport cuts the body into reads, the lines handed to
\* parseSSEData and the emit calls are those of the body read in one piece,
\* and the incomplete last line waits in the buffer.
C21_SplitInvariant ==
    web.pc \in {"reading", "done"} =>
        LET read == SubSeq(web.text, 1, web.pos)
            segments == SplitNewline(read, <<>>)
        IN  /\ web.handed = OneRead(read).handed
            /\ web.buffer = segments[Len(segments)]
            /\ web.notes = OneRead(read).notes
                              \o (IF web.pc = "done" THEN <<"end">> ELSE <<>>)

\* a line cut in the middle: 'event: ' in one read, the rest in the next
C21_Witness ==
    /\ web.pc = "done"
    /\ web.text = <<"e", "d", "nl", "d">>
    /\ web.cuts = <<1, 3>>
    /\ web.handed = << <<"e", "d">> >>

\* the lines of a body that hold text, the last one included
TextLines(chars) ==
    SelectSeq(SplitNewline(chars, <<>>), LAMBDA line : Trim(line) # <<>>)

\* C37: when the transport closes, every line of the body that holds text
\* has been handed to the parser exactly once before the end notification,
\* a last line without a closing newline included.
C37_NoTextLost ==
    web.pc = "done" => web.handed = TextLines(web.text)

(***************************************************************************)
(* Properties of EnhancedStreamingClient (specification SpecEnhanced).     *)
(***************************************************************************)
\* C23: chatWithRetry returns only when its last attempt succeeded, and
\* throws 'Failed after N attempts' only after maxRetries failed attempts:
\* an attempt that fails (establishment failure or stream error) with fewer
\* than maxRetries attempts made is followed by a wait and another attempt.
C23_RetriesUntilSuccess ==
    (enhanced.op = "retry" /\ enhanced.pc = "settled") =>
        /\ enhanced.outcome = "returned" =>
              /\ enhanced.notes # <<>>
              /\ enhanced.notes[Len(enhanced.notes)] = "end"
        /\ enhanced.outcome = "threw" => enhanced.attempt = enhanced.maxRetries

\* the text the generation records of a body carry, in order
RECURSIVE TextsOf(_)
TextsOf(body) ==
    IF body = <<>> THEN ""
    ELSE (IF Head(body).data.kind = "generation" THEN Head(body).data.text ELSE "")
         \o TextsOf(Tail(body))

\* C24: when the stream ends the promise of streamWithProgress resolves with
\* the content fragments of the stream concatenated in order, and onProgress
\* has been called once per fragment with the counts 1, 2, ...
C24_ResolvesWithContent ==
    (enhanced.op = "progress" /\ enhanced.outcome = "resolved") =>
        /\ enhanced.value = TextsOf(enhanced.body)
        /\ enhanced.progress =
              [i \in 1..Cardinality({n \in 1..Len(enhanced.body) :
                                        /\ enhanced.body[n].data.kind = "generation"
                                        /\ enhanced.body[n].data.text # ""}) |-> i]

\* C35: one failure of a legacy chat call (the request cannot be
\* established, or a read of the stream fails) invokes the onError callback
\* of that call exactly once.
C35_OnErrorOnce ==
    (enhanced.pc = "settled" /\ enhanced.attempt = 1 /\ enhanced.errors # <<>>) =>
        Len(enhanced.errors) = 1

(***************************************************************************)
(* Properties of ModelManager and AdvancedModelClient (SpecManager).       *)
(***************************************************************************)
\* C25: switchModel(id) with a configured id returns true, makes id the
\* current model and that model's provider the current endpoint; with an id
\* that is not configured it returns false and changes neither.
\* switchEndpoint(name) changes the endpoint only for a configured name and
\* never changes the current model.
C25_SwitchModelAndEndpoint ==
    /\ manager.op.kind = "switchModel" =>
          IF manager.op.arg \in ModelKeys
          THEN /\ manager.op.returned
               /\ manager.model = manager.op.arg
               /\ manager.endpoint = ProviderOf(manager.op.arg)
          ELSE /\ ~manager.op.returned
               /\ manager.model = manager.before.model
               /\ manager.endpoint = manager.before.endpoint
    /\ manager.op.kind = "switchEndpoint" =>
          /\ manager.model = manager.before.model
          /\ manager.endpoint # manager.before.endpoint =>
                /\ manager.op.arg \in EndpointKeys
                /\ manager.endpoint = manager.op.arg

\* C26: after switchModel to a configured model whose provider's client was
\* initialised, chat finds that client and goes through that provider's
\* branch; it does not fail with 'No client available' or 'Unsupported
\* endpoint'.
C26_ChatDispatchesToProvider ==
    ( /\ manager.op.kind = "switchModel"
      /\ manager.op.arg \in ModelKeys
      /\ ProviderOf(manager.op.arg) \in manager.clients
      /\ manager.chat # "none" )
    => manager.chat = ProviderOf(manager.op.arg)

\* the manager was constructed with neither DEFAULT_ENDPOINT nor DEFAULT_MODEL
FromDefaults ==
    /\ manager.pc = "ready"
    /\ manager.start = [endpoint |-> "openai", model |-> "gpt-3.5-turbo"]

\* C39: starting from the defaults, after any sequence of switchModel and
\* switchEndpoint calls the current endpoint is the provider of the current
\* model, so getCurrentConfig pairs the model with its own endpoint and
\* getAvailableModels contains the current model.
C39_EndpointIsProviderOfModel ==
    FromDefaults => manager.endpoint = ProviderOf(manager.model)

(***************************************************************************)
(* Properties of getMCPTools (specification SpecMcp).                      *)
(***************************************************************************)
\* the calls of client.close made so far
Closes == Cardinality({i \in 1..Len(mcp.calls) : mcp.calls[i] = "close"})

\* getMCPTools closes the client it created on every path: once, after
\* listTools, when it returns the tools; after the failure of connect,
\* listTools or close and before the error is rethrown otherwise, and then
\* the error thrown is the first one, whatever the cleanup close did
ClosedOnEveryPath ==
    (mcp.pc = "settled" /\ mcp.created) =>
        /\ mcp.calls[Len(mcp.calls)] = "close"
        /\ mcp.outcome = "returned" =>
              mcp.calls = <<"connect", "listTools", "close">>
        /\ mcp.outcome = "threw" =>
              /\ mcp.thrown \in McpErrors
              /\ mcp.calls \in {<<"connect", "close">>,
                                <<"connect", "listTools", "close">>,
                                <<"connect", "listTools", "close", "close">>}

\* C32: getMCPTools closes the client on every path after creating it, and
\* a serverName that is not configured fails with 'not found' before a
\* client or a transport is created.
C32_ClosedAndUnknownRejected ==
    /\ ClosedOnEveryPath
    /\ (mcp.pc # "idle" /\ ~OwnServerConfig(TargetServerName(mcp.serverName))) =>
          /\ ~mcp.created
          /\ mcp.outcome = "threw"
          /\ mcp.thrown = "not found"

(***************************************************************************)
(* Properties of ToolDiscoveryAgent.discover (specification SpecAgent).    *)
(***************************************************************************)
\* C34: discover calls the coding model at most maxSteps times, whatever
\* the judge answers and with the A4V setting on or off, and what it returns
\* is true exactly when the last verdict is success.
C34_AtMostMaxSteps ==
    /\ agent.calls <= agent.maxSteps
    /\ agent.outcome = "returned" =>
          agent.value = (agent.verdicts[Len(agent.verdicts)] = "success")

\* C38: a stream that completes without error and without a generation
\* makes EinsteinDevModelClient.chat return {error: null, messages: []}, and
\* discover, given that result, does not fail on the missing first message.
C38_EmptyResultHandled ==
    /\ EinsteinReturn(Null, <<>>) = [error |-> Null, messages |-> Messages(<<>>)]
    /\ agent.reply = EinsteinReturn(Null, <<>>) => agent.outcome # "threw"

(***************************************************************************)
(* Properties of chatCompletions (specification SpecCompletions).          *)
(***************************************************************************)
\* the calls of one callback, in order
CallsOf(name) == SelectSeq(completions.calls, LAMBDA c : c.name = name)

\* the non-empty contents of the chunks iterated so far
ContentsSoFar ==
    SelectSeq(SubSeq(completions.deltas, 1, completions.pos), LAMBDA c : c # "")

\* C36: a chatCompletions call given all three callbacks resolves, with or
\* without an 'error' listener on the client: when create or the iteration
\* fails onError is called exactly once and onEnd never; when the stream is
\* exhausted onContent has been called once per non-empty delta, in order,
\* and then onEnd exactly once.
C36_EveryOutcomeReported ==
    ( /\ completions.pc = "settled"
      /\ completions.given = {"onContent", "onError", "onEnd"} ) =>
        /\ completions.outcome = "resolved"
        /\ [i \in 1..Len(CallsOf("onContent")) |-> CallsOf("onContent")[i].arg]
              = ContentsSoFar
        /\ IF completions.failed
           THEN Len(CallsOf("onError")) = 1 /\ CallsOf("onEnd") = <<>>
           ELSE /\ Len(CallsOf("onEnd")) = 1 /\ CallsOf("onError") = <<>>
                /\ completions.calls[Len(completions.calls)].name = "onEnd"

====
